---- MODULE Spec2Model ----
(***************************************************************************)
(* A model of the polling helpers (testing/helpers/polling_helper.py), of  *)
(* the extractors of scripts/common/sql_extractors.py (walkthrough         *)
(* markdown, Terraform state, sanitize_sql, reconstruct_connection_sql)    *)
(* of the Flink SQL summary (scripts/common/generate_lab_flink_summary.py, *)
(* scripts/common/generate_deployment_summary.py), of deploy and destroy   *)
(* (deploy.py, scripts/common/destroy.py, terraform_runner.py), of the     *)
(* summary command (scripts/generate_lab_flink_summary.py), of the         *)
(* publishers (scripts/publish_docs.py, scripts/publish_lab3_data.py), of  *)
(* FlinkSQLHelper (testing/helpers/flink_sql_helper.py) and of the clock   *)
(* of the data generator (advance_time.py).                                *)
(*                                                                         *)
(* Each component has its own variables and its own specification; while   *)
(* one component runs, the variables of the others rest at their idle      *)
(* values.                                                                 *)
(*                                                                         *)
(* Time is counted in ticks of a quarter of a second: a quarter is exactly *)
(* representable as a binary float, so the "{elapsed:.1f}" formatting of   *)
(* the code (round to the nearest tenth, ties to even) is computed exactly *)
(* by Fmt1f.                                                               *)
(***************************************************************************)
EXTENDS Integers, Sequences, FiniteSets, TLC

(***************************************************************************)
(* Bounds of the model.                                                    *)
(***************************************************************************)
MaxTimeout == 2
MaxInterval == 2
MaxRetries == 4
MaxInitialDelay == 2
MaxLines == 3
MaxPieces == 9
MaxKeys == 4
MaxResources == 2
MaxItems == 2
MaxInputs == 3
MaxWorkers == 2
MaxWaitTimeout == 2
MaxWaitInterval == 2
MaxReads == 3
MaxCalls == 4
MaxStart == 4
MaxDelta == 3

\* values a getter can return
Values == {1, 2}
\* exception classes a getter can raise; both derive from Exception, and
\* TimeoutError is the class the helpers themselves raise
ExcTypes == {"ValueError", "TimeoutError"}
\* what condition(value) can do with a value
CondOutcomes == {"true", "false", "raise"}
Conditions == [Values -> CondOutcomes]
\* ticks a getter call may take, and ticks a sleep may overshoot
GetterTicks == {0, 1}
JitterTicks == {0, 1}

\* an optional value: <<>> is None, <<x>> is x
None == <<>>
Some(x) == <<x>>

\* seconds to ticks
Ticks(s) == 4 * s
\* the clock never passes this value in a run of poll_until
MaxClock == Ticks(MaxTimeout + MaxInterval) + 2

\* f"{elapsed:.1f}": the number of tenths of a second printed for t ticks
Fmt1f(t) ==
    LET q == (5 * t) \div 2
        r == (5 * t) % 2
    IN  IF r = 0 THEN q ELSE IF q % 2 = 0 THEN q ELSE q + 1

\* An exception object.  text is the message template; elapsed, attempts, value
\* and cause are the fields interpolated into the message (None when the
\* message does not mention them); cause is str(e) of a wrapped exception.
Exception(type, text, elapsed, attempts, value, cause) ==
    [type |-> type, text |-> text, elapsed |-> elapsed, attempts |-> attempts,
     value |-> value, cause |-> cause]

\* the exception a getter raises, and the one a condition raises
GetterError(type) == Exception(type, "boom", None, None, None, None)
ConditionError == Exception("ValueError", "bad value", None, None, None, None)
\* str(e)
Str(e) == e.text

VARIABLES
    \* poll_until
    pu_pc,          \* "idle", "loop", "cond", "except", "returned", "raised"
    pu_timeout,     \* seconds
    pu_interval,    \* seconds
    pu_cond,        \* the condition callback
    pu_now,         \* time.time(), in ticks
    pu_start,       \* start_time
    pu_attempt,
    pu_elapsed,     \* in ticks
    pu_value,
    pu_exc,         \* the exception in flight
    pu_result,      \* the value returned or the exception raised
    pu_calls,       \* number of getter calls made
    pu_sleeps,      \* number of time.sleep calls made
    pu_outcome,     \* what the current attempt has done so far
    pu_hits         \* number of getter results that satisfied the condition

puVars == <<pu_pc, pu_timeout, pu_interval, pu_cond, pu_now, pu_start,
            pu_attempt, pu_elapsed, pu_value, pu_exc, pu_result, pu_calls,
            pu_sleeps, pu_outcome, pu_hits>>

VARIABLES
    \* poll_with_exponential_backoff
    pb_pc,             \* "idle", "loop", "cond", "except", "returned", "raised"
    pb_max_retries,
    pb_initial_delay,  \* seconds
    pb_cond,           \* the condition callback
    pb_attempt,        \* the loop variable of range(max_retries)
    pb_value,
    pb_exc,            \* the exception in flight
    pb_result,         \* the value returned or the exception raised
    pb_calls,          \* number of getter calls made
    pb_sleeps,         \* the arguments of the time.sleep calls made, in order
    pb_outcome,        \* what the current attempt has done so far
    pb_hits            \* number of getter results that satisfied the condition

pbVars == <<pb_pc, pb_max_retries, pb_initial_delay, pb_cond, pb_attempt,
            pb_value, pb_exc, pb_result, pb_calls, pb_sleeps, pb_outcome,
            pb_hits>>

VARIABLES
    \* extract_sql_from_lab_walkthroughs
    wx_pc,        \* "idle", "call", "done"
    wx_lines,     \* the lines of the markdown file
    wx_txt,       \* txt: the text of the file, a sequence of characters
    wx_matches,   \* the matches re.finditer has produced, in order
    wx_result     \* the string returned

wxVars == <<wx_pc, wx_lines, wx_txt, wx_matches, wx_result>>

\* sanitize_sql
VARIABLES
    ss_pc,          \* "idle", "call", "done"
    ss_sql,         \* the argument
    ss_sanitized    \* the value returned

ssVars == <<ss_pc, ss_sql, ss_sanitized>>

\* reconstruct_connection_sql
VARIABLES
    rc_pc,            \* "idle", "call", "done"
    rc_values,        \* the argument connection_values
    rc_with_clauses,  \* the list with_clauses at line 250
    rc_sql            \* the value returned

rcVars == <<rc_pc, rc_values, rc_with_clauses, rc_sql>>

\* extract_flink_statements and extract_core_llm_resources
VARIABLES
    tf_pc,      \* "idle", "call", "done"
    tf_fn,      \* the function called
    tf_file,    \* terraform.tfstate
    tf_result   \* how the call ended: "return" or the exception raised,
                \* the list returned, the warnings printed

tfVars == <<tf_pc, tf_fn, tf_file, tf_result>>

\* get_manual_commands_for_lab and generate_flink_sql_summary
VARIABLES
    gs_pc,           \* "idle", "lab", "summary", "done"
    gs_lab_name,     \* the lab
    gs_walkthrough,  \* the walkthrough file of the lab
    gs_args,         \* cloud_provider, core_resources, automated_commands
                     \* and manual_commands of generate_flink_sql_summary
    gs_warnings,     \* the warnings printed
    gs_content       \* the document

gsVars == <<gs_pc, gs_lab_name, gs_walkthrough, gs_args, gs_warnings, gs_content>>

\* deploy, destroy: the loops over the terraform environments
VARIABLES
    en_pc,         \* "idle", "tfvars", "deploy", "destroy", "completed",
                   \* "exit1"
    en_envs,       \* envs_to_deploy or envs_to_destroy
    en_i,          \* the position of the loop in the list
    en_terraform,  \* whether the terraform binary is on the PATH
    en_dirs,       \* the directory of each environment: "missing" or the
                   \* set of the names in it
    en_log         \* what the run has done, in order

enVars == <<en_pc, en_envs, en_i, en_terraform, en_dirs, en_log>>

\* the summary command: scripts/generate_lab_flink_summary.py
VARIABLES
    cl_pc,      \* "idle", "call", "exited"
    cl_argv,    \* the arguments, and what they name in the file system
    cl_exit     \* the exit status, the warnings printed, whether
                \* FLINK_SQL_COMMANDS.md was written

clVars == <<cl_pc, cl_argv, cl_exit>>

\* publish_directory / publish_jsonl_file and the workers of their pool
VARIABLES
    pd_pc,              \* the calling thread: "idle", "call", "collect",
                        \* "returned", "raised"
    pd_task,            \* per input: where its task is, its result
    pd_lock,            \* _login_check_lock: 0, or the task that holds it
    pd_login_verified,  \* _login_verified
    pd_checks,          \* number of calls of check_confluent_login so far
    pd_results          \* results: success, failed, total

pdVars == <<pd_pc, pd_task, pd_lock, pd_login_verified, pd_checks, pd_results>>

\* FlinkSQLHelper.wait_for_status
VARIABLES
    fw_pc,       \* "idle", "loop", "check", "sleep", "returned", "raised"
    fw_args,     \* target_statuses, timeout, interval
    fw_now,      \* time.time() - start_time
    fw_status,   \* status: the last status read
    fw_trace,    \* the status reads and the sleeps made, in order
    fw_result    \* the status returned or the exception raised

\* FlinkSQLHelper: created_statements and the calls that change it
VARIABLES
    ft_pc,       \* "idle", "ready", "cleanup"
    ft_created,  \* created_statements
    ft_service,  \* the statements that exist in the Flink service
    ft_live,     \* the names created with success and not deleted with
                 \* success since
    ft_cleanup,  \* the cleanup_all that runs or has just returned
    ft_calls     \* number of calls made so far

fhVars == <<fw_pc, fw_args, fw_now, fw_status, fw_trace, fw_result,
            ft_pc, ft_created, ft_service, ft_live, ft_cleanup, ft_calls>>

\* advance_time, called again and again with the state it returned
VARIABLES
    at_pc,      \* "idle", "calls"
    at_args,    \* params["args"]
    at_state,   \* params["state"] of the next call
    at_value    \* the value of the last call

atVars == <<at_pc, at_args, at_state, at_value>>

vars == <<puVars, pbVars, wxVars, ssVars, rcVars, tfVars, gsVars, enVars, clVars, pdVars, fhVars, atVars>>

\* what a step of one component leaves alone
PU_Frame == UNCHANGED <<pbVars, wxVars, ssVars, rcVars, tfVars, gsVars, enVars, clVars, pdVars, fhVars, atVars>>
PB_Frame == UNCHANGED <<puVars, wxVars, ssVars, rcVars, tfVars, gsVars, enVars, clVars, pdVars, fhVars, atVars>>
WX_Frame == UNCHANGED <<puVars, pbVars, ssVars, rcVars, tfVars, gsVars, enVars, clVars, pdVars, fhVars, atVars>>
SS_Frame == UNCHANGED <<puVars, pbVars, wxVars, rcVars, tfVars, gsVars, enVars, clVars, pdVars, fhVars, atVars>>
RC_Frame == UNCHANGED <<puVars, pbVars, wxVars, ssVars, tfVars, gsVars, enVars, clVars, pdVars, fhVars, atVars>>
TF_Frame == UNCHANGED <<puVars, pbVars, wxVars, ssVars, rcVars, gsVars, enVars, clVars, pdVars, fhVars, atVars>>
GS_Frame == UNCHANGED <<puVars, pbVars, wxVars, ssVars, rcVars, tfVars, enVars, clVars, pdVars, fhVars, atVars>>
EN_Frame == UNCHANGED <<puVars, pbVars, wxVars, ssVars, rcVars, tfVars, gsVars, clVars, pdVars, fhVars, atVars>>
CL_Frame == UNCHANGED <<puVars, pbVars, wxVars, ssVars, rcVars, tfVars, gsVars, enVars, pdVars, fhVars, atVars>>
PD_Frame == UNCHANGED <<puVars, pbVars, wxVars, ssVars, rcVars, tfVars, gsVars, enVars, clVars, fhVars, atVars>>
FH_Frame == UNCHANGED <<puVars, pbVars, wxVars, ssVars, rcVars, tfVars, gsVars, enVars, clVars, pdVars, atVars>>
AT_Frame == UNCHANGED <<puVars, pbVars, wxVars, ssVars, rcVars, tfVars, gsVars, enVars, clVars, pdVars, fhVars>>

(***************************************************************************)
(* poll_until                                                              *)
(***************************************************************************)
PU_Idle ==
    /\ pu_pc = "idle"
    /\ pu_timeout = 0
    /\ pu_interval = 0
    /\ pu_cond = [v \in Values |-> "false"]
    /\ pu_now = 0
    /\ pu_start = 0
    /\ pu_attempt = 0
    /\ pu_elapsed = 0
    /\ pu_value = None
    /\ pu_exc = None
    /\ pu_result = None
    /\ pu_calls = 0
    /\ pu_sleeps = 0
    /\ pu_outcome = "none"
    /\ pu_hits = 0

\* the call, up to the head of the loop (lines 41-42)
PU_Init ==
    /\ pu_pc = "loop"
    /\ pu_timeout \in 0..MaxTimeout
    /\ pu_interval \in 1..MaxInterval
    /\ pu_cond \in Conditions
    /\ pu_now = 0
    /\ pu_start = pu_now
    /\ pu_attempt = 0
    /\ pu_elapsed = 0
    /\ pu_value = None
    /\ pu_exc = None
    /\ pu_result = None
    /\ pu_calls = 0
    /\ pu_sleeps = 0
    /\ pu_outcome = "none"
    /\ pu_hits = 0

\* time.sleep(interval): the clock advances by at least interval
PU_Sleep ==
    \E j \in JitterTicks :
        /\ pu_now + Ticks(pu_interval) + j <= MaxClock
        /\ pu_now' = pu_now + Ticks(pu_interval) + j
        /\ pu_sleeps' = pu_sleeps + 1
        /\ pu_pc' = "loop"

\* raise: the call ends with exception e
PU_Raise(e) ==
    /\ pu_pc' = "raised"
    /\ pu_result' = Some(e)
    /\ UNCHANGED <<pu_now, pu_sleeps>>

\* lines 45-49: attempt += 1; elapsed = time.time() - start_time; value = getter()
PU_Getter ==
    /\ pu_pc = "loop"
    /\ pu_attempt' = pu_attempt + 1
    /\ pu_elapsed' = pu_now - pu_start
    /\ pu_calls' = pu_calls + 1
    /\ \E g \in GetterTicks : pu_now' = pu_now + g
    /\ \/ \E v \in Values :
            /\ pu_value' = Some(v)
            /\ pu_outcome' = "value"
            /\ pu_pc' = "cond"
            /\ UNCHANGED pu_exc
       \/ \E t \in ExcTypes :
            /\ pu_exc' = Some(GetterError(t))
            /\ pu_outcome' = "getter_raised"
            /\ pu_pc' = "except"
            /\ UNCHANGED pu_value
    /\ UNCHANGED <<pu_timeout, pu_interval, pu_cond, pu_start, pu_result,
                   pu_sleeps, pu_hits>>
    /\ PU_Frame

\* PU_Return with a sleep put before the return
PU_Return_M ==
    /\ pu_pc' = "returned"
    /\ pu_result' = pu_value
    /\ pu_now' = pu_now + Ticks(pu_interval)
    /\ pu_sleeps' = pu_sleeps + 1

\* line 52: return value
PU_Return ==
    /\ pu_pc' = "returned"
    /\ pu_result' = pu_value
    /\ UNCHANGED <<pu_now, pu_sleeps>>

\* PU_TimeoutMessage reporting the attempts completed before this one
PU_TimeoutMessage_M ==
    Exception("TimeoutError", "Timeout waiting for", Some(Fmt1f(pu_elapsed)),
              Some(pu_attempt - 1), pu_value, None)

\* the TimeoutError of lines 56-59
PU_TimeoutMessage ==
    Exception("TimeoutError", "Timeout waiting for", Some(Fmt1f(pu_elapsed)),
              Some(pu_attempt), pu_value, None)

\* lines 51-62: the condition, the deadline check and the sleep
PU_Condition ==
    /\ pu_pc = "cond"
    /\ LET c == pu_cond[pu_value[1]] IN
        \/ /\ c = "true"
           /\ pu_outcome' = "cond_true"
           /\ pu_hits' = pu_hits + 1
           /\ PU_Return
           /\ UNCHANGED pu_exc
        \/ /\ c = "raise"
           /\ pu_outcome' = "cond_raised"
           /\ pu_exc' = Some(ConditionError)
           /\ pu_pc' = "except"
           /\ UNCHANGED <<pu_hits, pu_result, pu_now, pu_sleeps>>
        \/ /\ c = "false"
           /\ pu_outcome' = "cond_false"
           /\ IF pu_elapsed >= Ticks(pu_timeout)
                THEN /\ pu_exc' = Some(PU_TimeoutMessage)
                     /\ pu_pc' = "except"
                     /\ UNCHANGED <<pu_now, pu_sleeps>>
                ELSE /\ PU_Sleep
                     /\ UNCHANGED pu_exc
           /\ UNCHANGED <<pu_hits, pu_result>>
    /\ UNCHANGED <<pu_timeout, pu_interval, pu_cond, pu_start, pu_attempt,
                   pu_elapsed, pu_value, pu_calls>>
    /\ PU_Frame

\* PU_ErrorMessage losing the message of the wrapped exception
PU_ErrorMessage_M(e) ==
    Exception("TimeoutError", "Error polling for", Some(Fmt1f(pu_elapsed)),
              None, None, None)

\* the TimeoutError of lines 71-73, wrapping exception e
PU_ErrorMessage(e) ==
    Exception("TimeoutError", "Error polling for", Some(Fmt1f(pu_elapsed)),
              None, None, Some(Str(e)))

\* PU_Except without the deadline check of line 70
PU_Except_M ==
    /\ pu_pc = "except"
    /\ LET e == pu_exc[1] IN
        IF e.type = "TimeoutError"
          THEN PU_Raise(e)
          ELSE PU_Sleep /\ UNCHANGED pu_result
    /\ UNCHANGED <<pu_timeout, pu_interval, pu_cond, pu_start, pu_attempt,
                   pu_elapsed, pu_value, pu_exc, pu_calls, pu_outcome, pu_hits>>
    /\ PU_Frame

\* lines 64-76: the except clause
PU_Except ==
    /\ pu_pc = "except"
    /\ LET e == pu_exc[1] IN
        IF e.type = "TimeoutError"
          THEN PU_Raise(e)
          ELSE IF pu_elapsed >= Ticks(pu_timeout)
                 THEN PU_Raise(PU_ErrorMessage(e))
                 ELSE PU_Sleep /\ UNCHANGED pu_result
    /\ UNCHANGED <<pu_timeout, pu_interval, pu_cond, pu_start, pu_attempt,
                   pu_elapsed, pu_value, pu_exc, pu_calls, pu_outcome, pu_hits>>
    /\ PU_Frame

PU_Done == pu_pc \in {"returned", "raised"}

PU_Next ==
    \/ PU_Getter
    \/ PU_Condition
    \/ PU_Except

(***************************************************************************)
(* poll_with_exponential_backoff                                           *)
(***************************************************************************)
RECURSIVE Pow2(_)
Pow2(n) == IF n = 0 THEN 1 ELSE 2 * Pow2(n - 1)

PB_Idle ==
    /\ pb_pc = "idle"
    /\ pb_max_retries = 0
    /\ pb_initial_delay = 0
    /\ pb_cond = [v \in Values |-> "false"]
    /\ pb_attempt = 0
    /\ pb_value = None
    /\ pb_exc = None
    /\ pb_result = None
    /\ pb_calls = 0
    /\ pb_sleeps = <<>>
    /\ pb_outcome = "none"
    /\ pb_hits = 0

\* the call, up to the head of the loop (line 110)
PB_Init ==
    /\ pb_pc = "loop"
    /\ pb_max_retries \in 0..MaxRetries
    /\ pb_initial_delay \in 1..MaxInitialDelay
    /\ pb_cond \in Conditions
    /\ pb_attempt = 0
    /\ pb_value = None
    /\ pb_exc = None
    /\ pb_result = None
    /\ pb_calls = 0
    /\ pb_sleeps = <<>>
    /\ pb_outcome = "none"
    /\ pb_hits = 0

\* PB_InRange with the loop running one attempt too many
PB_InRange_M == pb_attempt <= pb_max_retries

\* line 110: range(max_retries) has a next element
PB_InRange == pb_attempt < pb_max_retries

\* PB_WaitTime with a delay that grows linearly
PB_WaitTime_M == pb_initial_delay * (pb_attempt + 1)

\* lines 119 and 130: wait_time = initial_delay * (2 ** attempt)
PB_WaitTime == pb_initial_delay * Pow2(pb_attempt)

\* time.sleep(wait_time), then the next iteration of the for loop
PB_Sleep ==
    /\ pb_sleeps' = Append(pb_sleeps, PB_WaitTime)
    /\ pb_attempt' = pb_attempt + 1
    /\ pb_pc' = "loop"

\* raise: the call ends with exception e
PB_Raise(e) ==
    /\ pb_pc' = "raised"
    /\ pb_result' = Some(e)
    /\ UNCHANGED <<pb_sleeps, pb_attempt>>

\* lines 110-112: the next attempt calls getter()
PB_Getter ==
    /\ pb_pc = "loop"
    /\ PB_InRange
    /\ pb_calls' = pb_calls + 1
    /\ \/ \E v \in Values :
            /\ pb_value' = Some(v)
            /\ pb_outcome' = "value"
            /\ pb_pc' = "cond"
            /\ UNCHANGED pb_exc
       \/ \E t \in ExcTypes :
            /\ pb_exc' = Some(GetterError(t))
            /\ pb_outcome' = "getter_raised"
            /\ pb_pc' = "except"
            /\ UNCHANGED pb_value
    /\ UNCHANGED <<pb_max_retries, pb_initial_delay, pb_cond, pb_attempt,
                   pb_result, pb_sleeps, pb_hits>>
    /\ PB_Frame

\* lines 114-120: the condition, and the sleep when attempts remain
PB_Condition ==
    /\ pb_pc = "cond"
    /\ LET c == pb_cond[pb_value[1]] IN
        \/ /\ c = "true"
           /\ pb_outcome' = "cond_true"
           /\ pb_hits' = pb_hits + 1
           /\ pb_pc' = "returned"
           /\ pb_result' = pb_value
           /\ UNCHANGED <<pb_exc, pb_sleeps, pb_attempt>>
        \/ /\ c = "raise"
           /\ pb_outcome' = "cond_raised"
           /\ pb_exc' = Some(ConditionError)
           /\ pb_pc' = "except"
           /\ UNCHANGED <<pb_hits, pb_result, pb_sleeps, pb_attempt>>
        \/ /\ c = "false"
           /\ pb_outcome' = "cond_false"
           /\ IF pb_attempt < pb_max_retries - 1
                THEN PB_Sleep
                ELSE /\ pb_attempt' = pb_attempt + 1
                     /\ pb_pc' = "loop"
                     /\ UNCHANGED pb_sleeps
           /\ UNCHANGED <<pb_hits, pb_result, pb_exc>>
    /\ UNCHANGED <<pb_max_retries, pb_initial_delay, pb_cond, pb_value,
                   pb_calls>>
    /\ PB_Frame

\* the TimeoutError of lines 125-127, wrapping exception e
PB_FailedMessage(e) ==
    Exception("TimeoutError", "Failed", None, Some(pb_max_retries), None,
              Some(Str(e)))

\* PB_Except with the last-attempt test off by one
PB_Except_M ==
    /\ pb_pc = "except"
    /\ LET e == pb_exc[1] IN
        IF pb_attempt > pb_max_retries - 1
          THEN PB_Raise(PB_FailedMessage(e))
          ELSE PB_Sleep /\ UNCHANGED pb_result
    /\ UNCHANGED <<pb_max_retries, pb_initial_delay, pb_cond, pb_value, pb_exc,
                   pb_calls, pb_outcome, pb_hits>>
    /\ PB_Frame

\* lines 122-131: the except clause
PB_Except ==
    /\ pb_pc = "except"
    /\ LET e == pb_exc[1] IN
        IF pb_attempt >= pb_max_retries - 1
          THEN PB_Raise(PB_FailedMessage(e))
          ELSE PB_Sleep /\ UNCHANGED pb_result
    /\ UNCHANGED <<pb_max_retries, pb_initial_delay, pb_cond, pb_value, pb_exc,
                   pb_calls, pb_outcome, pb_hits>>
    /\ PB_Frame

\* the TimeoutError of lines 134-136
PB_ExhaustedMessage ==
    Exception("TimeoutError", "Timeout waiting for", None,
              Some(pb_max_retries), None, None)

\* lines 133-136: the loop is over
PB_Exhausted ==
    /\ pb_pc = "loop"
    /\ ~PB_InRange
    /\ PB_Raise(PB_ExhaustedMessage)
    /\ UNCHANGED <<pb_max_retries, pb_initial_delay, pb_cond, pb_value, pb_exc,
                   pb_calls, pb_outcome, pb_hits>>
    /\ PB_Frame

PB_Done == pb_pc \in {"returned", "raised"}

PB_Next ==
    \/ PB_Getter
    \/ PB_Condition
    \/ PB_Except
    \/ PB_Exhausted

(***************************************************************************)
(* extract_sql_from_lab_walkthroughs                                       *)
(*                                                                         *)
(* A text is a sequence of one-character strings.  Offsets are those of    *)
(* Python: offset i is the place before character i + 1, and a match is    *)
(* the half-open range [start, end).                                       *)
(***************************************************************************)
NL == "\n"
\* the backquote character (the parser takes no backquote inside a string)
BQ == "bq"
Fence == <<BQ, BQ, BQ>>
Sql == <<"s", "q", "l">>
Bash == <<"b", "a", "s", "h">>
NoParse == <<"n", "o", "-", "p", "a", "r", "s", "e">>
Digits == {"0", "1", "2", "3", "4", "5", "6", "7", "8", "9"}
Spaces == {" ", "\t", NL}

\* the lines a walkthrough is written with
LinePool ==
    { Fence \o Sql,                          \* ```sql
      Fence \o Sql \o <<" ">> \o NoParse,     \* ```sql no-parse
      Fence \o Bash,                         \* ```bash
      Fence \o Bash \o <<" ">> \o NoParse,    \* ```bash no-parse
      Fence,                                 \* ```
      <<"#", " ", "1", ".", " ", "x">>,      \* # 1. x
      <<"x">>,                               \* x
      NoParse,                               \* no-parse
      <<"#">>,                               \* #
      <<"1", ".", " ", "x">>,                \* 1. x
      <<"#", "#", "#", "#", " ", "1", ".", " ", "x">>,   \* #### 1. x
      <<"#", "#", " ", "x">> }               \* ## x

\* the lines joined by newlines
RECURSIVE Unlines(_)
Unlines(ls) ==
    IF ls = <<>> THEN <<>>
    ELSE IF Len(ls) = 1 THEN ls[1]
    ELSE ls[1] \o <<NL>> \o Unlines(Tail(ls))

Documents == UNION {[1..n -> LinePool] : n \in 0..MaxLines}

\* the character at offset i, "" at the end of the text
CharAt(txt, i) == IF i < Len(txt) THEN txt[i + 1] ELSE ""

\* ^ under re.MULTILINE
AtLineStart(txt, i) == i = 0 \/ txt[i] = NL

\* a literal at offset i
Literal(txt, i, lit) ==
    /\ i + Len(lit) <= Len(txt)
    /\ \A k \in 1..Len(lit) : txt[i + k] = lit[k]

\* the end of the longest run of characters of class cls from offset i
RunEnd(txt, i, cls) ==
    CHOOSE j \in i..Len(txt) :
        /\ \A k \in i..(j - 1) : CharAt(txt, k) \in cls
        /\ CharAt(txt, j) \notin cls

\* the end of the line that offset i is in: [^\n]* from i
LineEnd(txt, i) ==
    CHOOSE j \in i..Len(txt) :
        /\ \A k \in i..(j - 1) : CharAt(txt, k) # NL
        /\ CharAt(txt, j) \in {NL, ""}

\* ^#{1,3}\s+\d+\.[^\n]+ at offset i: the end of the match, -1 for none.
\* Each repetition is followed by a character outside its class, so the only
\* split that can match is the one with every run taken whole.
MatchHeader(txt, i) ==
    LET a == RunEnd(txt, i, {"#"})
        b == RunEnd(txt, a, Spaces)
        c == RunEnd(txt, b, Digits)
        d == LineEnd(txt, c + 1)
    IN  IF /\ AtLineStart(txt, i)
           /\ a - i \in 1..3
           /\ b > a
           /\ c > b
           /\ CharAt(txt, c) = "."
           /\ c + 1 <= Len(txt)
           /\ d > c + 1
        THEN d ELSE -1

\* (?!\s+no-parse) at offset j
NotNoParse(txt, j) ==
    LET k == RunEnd(txt, j, Spaces)
    IN  ~(k > j /\ Literal(txt, k, NoParse))

\* the offsets from j on where ^``` matches
ClosingFences(txt, j) ==
    {q \in j..Len(txt) : AtLineStart(txt, q) /\ Literal(txt, q, Fence)}

SetMin(S) == CHOOSE x \in S : \A y \in S : x <= y

\* ^```lang(?!\s+no-parse)\n.*?^``` at offset i (re.DOTALL): the end of the
\* match, -1 for none.  The lazy .*? stops at the first closing fence.
MatchBlock(txt, i, lang) ==
    LET j == i + Len(Fence) + Len(lang)
    IN  IF /\ AtLineStart(txt, i)
           /\ Literal(txt, i, Fence \o lang)
           /\ NotNoParse(txt, j)
           /\ CharAt(txt, j) = NL
           /\ ClosingFences(txt, j + 1) # {}
        THEN SetMin(ClosingFences(txt, j + 1)) + Len(Fence) ELSE -1

\* the combined pattern at offset i: the alternatives in their order
MatchAt(txt, i) ==
    IF MatchHeader(txt, i) >= 0 THEN MatchHeader(txt, i)
    ELSE IF MatchBlock(txt, i, Sql) >= 0 THEN MatchBlock(txt, i, Sql)
    ELSE MatchBlock(txt, i, Bash)

\* re.finditer from offset pos: the leftmost match, then on from its end
RECURSIVE FindFrom(_, _)
FindFrom(txt, pos) ==
    LET starts == {i \in pos..Len(txt) : MatchAt(txt, i) >= 0}
    IN  IF starts = {} THEN <<>>
        ELSE LET i == SetMin(starts)
             IN  <<[start |-> i, end |-> MatchAt(txt, i)]>>
                    \o FindFrom(txt, MatchAt(txt, i))

\* FindIter yielding the headers before the code blocks
FindIter_M(txt) ==
    LET IsHeader(m) == CharAt(txt, m.start) = "#"
        IsBlock(m) == ~IsHeader(m)
    IN  SelectSeq(FindFrom(txt, 0), IsHeader)
            \o SelectSeq(FindFrom(txt, 0), IsBlock)

\* re.finditer(pattern, txt, re.MULTILINE | re.DOTALL)
FindIter(txt) == FindFrom(txt, 0)

\* m.group(0)
Group0(txt, m) == SubSeq(txt, m.start + 1, m.end)

\* sep.join(parts)
RECURSIVE Join(_, _)
Join(sep, parts) ==
    IF parts = <<>> THEN <<>>
    ELSE IF Len(parts) = 1 THEN parts[1]
    ELSE parts[1] \o sep \o Join(sep, Tail(parts))

WX_Idle ==
    /\ wx_pc = "idle"
    /\ wx_lines = <<>>
    /\ wx_txt = <<>>
    /\ wx_matches = <<>>
    /\ wx_result = <<>>

\* line 299: txt = md_path.read_text()
WX_Init ==
    /\ wx_pc = "call"
    /\ wx_lines \in Documents
    /\ wx_txt = Unlines(wx_lines)
    /\ wx_matches = <<>>
    /\ wx_result = <<>>

\* lines 301-304: the matches of the pattern, joined by a blank line
WX_Extract ==
    /\ wx_pc = "call"
    /\ wx_matches' = FindIter(wx_txt)
    /\ wx_result' =
          Join(<<NL, NL>>,
               [k \in 1..Len(FindIter(wx_txt)) |->
                    Group0(wx_txt, FindIter(wx_txt)[k])])
    /\ wx_pc' = "done"
    /\ UNCHANGED <<wx_lines, wx_txt>>
    /\ WX_Frame

(***************************************************************************)
(* sanitize_sql                                                            *)
(*                                                                         *)
(* A SQL text is drawn as a row of pieces: a backquoted identifier, a      *)
(* period or a blank.  The identifier at piece k is named by the k-th      *)
(* letter, so that the parts of a qualified name can be told apart.        *)
(***************************************************************************)
PieceKinds == {"id", ".", " "}
IdentNames == <<"a", "b", "c", "d", "e", "f", "g", "h", "i", "j">>

IdentName(k) == IdentNames[((k - 1) % Len(IdentNames)) + 1]

Piece(kind, k) == IF kind = "id" THEN <<BQ, IdentName(k), BQ>> ELSE <<kind>>

RECURSIVE Render(_, _)
Render(shape, k) ==
    IF k > Len(shape) THEN <<>>
    ELSE Piece(shape[k], k) \o Render(shape, k + 1)

SqlTexts == {Render(shape, 1) : shape \in UNION {[1..n -> PieceKinds] : n \in 0..MaxPieces}}

\* `[^`]+` at offset i: the offset after the closing backquote, or -1
QuotedEnd(txt, i) ==
    IF i < 0 \/ CharAt(txt, i) # BQ THEN -1
    ELSE LET e == RunEnd(txt, i + 1, {txt[k] : k \in 1..Len(txt)} \ {BQ})
         IN  IF e > i + 1 /\ CharAt(txt, e) = BQ THEN e + 1 ELSE -1

\* \.`[^`]+` at offset i: the offset after the closing backquote, or -1
DotQuotedEnd(txt, i) ==
    IF i < 0 \/ CharAt(txt, i) # "." THEN -1 ELSE QuotedEnd(txt, i + 1)

\* the pattern `[^`]+`\.`[^`]+`\.`([^`]+)` at offset i: the end of the match
\* and the range of group 1, or end -1
MatchQualified(txt, i) ==
    LET e2 == DotQuotedEnd(txt, QuotedEnd(txt, i))
        e3 == DotQuotedEnd(txt, e2)
    IN  [start |-> i, end |-> e3, g1 |-> [start |-> e2 + 2, end |-> e3 - 1]]

\* the replacement `\1` for match m
Replacement(txt, m) == <<BQ>> \o Group0(txt, m.g1) \o <<BQ>>

\* re.sub from offset pos: leftmost matches, left to right, not overlapping
RECURSIVE SubFrom(_, _)
SubFrom(txt, pos) ==
    LET starts == {i \in pos..Len(txt) : MatchQualified(txt, i).end >= 0}
    IN  IF starts = {} THEN SubSeq(txt, pos + 1, Len(txt))
        ELSE LET m == MatchQualified(txt, SetMin(starts))
             IN  SubSeq(txt, pos + 1, m.start)
                    \o Replacement(txt, m)
                    \o SubFrom(txt, m.end)

\* lines 271-281
sanitize_sql(sql) == SubFrom(sql, 0)

SS_Idle ==
    /\ ss_pc = "idle"
    /\ ss_sql = <<>>
    /\ ss_sanitized = <<>>

SS_Init ==
    /\ ss_pc = "call"
    /\ ss_sql \in SqlTexts
    /\ ss_sanitized = <<>>

\* one call of sanitize_sql
SS_Sanitize ==
    /\ ss_pc = "call"
    /\ ss_sanitized' = sanitize_sql(ss_sql)
    /\ ss_pc' = "done"
    /\ UNCHANGED ss_sql
    /\ SS_Frame

(***************************************************************************)
(* reconstruct_connection_sql                                              *)
(*                                                                         *)
(* A JSON value of the state file is null or a string; a dict is a         *)
(* function from the keys it holds.  A string is a sequence of pieces of   *)
(* text; within the keys the underscore and the hyphen are pieces of       *)
(* their own.                                                              *)
(***************************************************************************)
JNull == [k |-> "null", s |-> <<>>]
JStr(s) == [k |-> "str", s |-> s]

\* d.get(key, default)
Get(d, key, default) == IF key \in DOMAIN d THEN d[key] ELSE default

\* the truth value of a JSON value in an if
Truthy(v) == v.k = "str" /\ v.s # <<>>

\* {v} in an f-string
FString(v) == IF v.k = "null" THEN <<"None">> ELSE v.s

\* s.replace(old, new), old and new one character each
Replace(s, old, new) == [i \in 1..Len(s) |-> IF s[i] = old THEN new ELSE s[i]]

\* lines 235-242
credential_attrs ==
    << <<"api", "-", "key">>, <<"api", "_", "key">>,
       <<"password">>,
       <<"connection", "-", "string">>, <<"connection", "_", "string">>,
       <<"username">>,
       <<"aws", "_", "access", "_", "key", "_", "id">>,
       <<"aws", "_", "secret", "_", "access", "_", "key">> >>

TypeKey == <<"type">>
DisplayNameKey == <<"display", "_", "name">>
EndpointKey == <<"endpoint">>

\* the keys a connection's attributes are drawn from: those the function
\* reads, and one it does not
ConnectionKeys ==
    {TypeKey, DisplayNameKey, EndpointKey, <<"region">>}
        \cup {credential_attrs[i] : i \in 1..Len(credential_attrs)}

\* the values a key is drawn with: null, the empty string, or a literal
\* that names the key
ValueKinds == {"null", "empty", "literal"}
ValueOf(key, kind) ==
    CASE kind = "null" -> JNull
      [] kind = "empty" -> JStr(<<>>)
      [] kind = "literal" -> JStr(<<"<">> \o key \o <<">">>)

\* a dict holds at most MaxKeys of the keys
KeySets == {K \in SUBSET ConnectionKeys : Cardinality(K) <= MaxKeys}

\* the name of attr with underscores kept
sql_attr_name_M(attr) == attr

\* line 247
sql_attr_name(attr) == Replace(attr, "_", "-")

\* f"'{key}' = '{value}'"
Clause(key, value) == <<"'">> \o key \o <<"' = '">> \o value \o <<"'">>

\* lines 224-248
with_clauses(values) ==
    LET conn_type == Get(values, TypeKey, JStr(<<"UNKNOWN">>))
        endpoint == Get(values, EndpointKey, JStr(<<>>))
        Listed(attr) == attr \in DOMAIN values /\ Truthy(values[attr])
        attrs == SelectSeq(credential_attrs, Listed)
    IN  <<Clause(TypeKey, FString(conn_type))>>
            \o (IF Truthy(endpoint)
                THEN <<Clause(EndpointKey, FString(endpoint))>> ELSE <<>>)
            \o [i \in 1..Len(attrs) |->
                    Clause(sql_attr_name(attrs[i]), FString(values[attrs[i]]))]

\* lines 250-254
reconstruct_connection_sql(values) ==
    LET display_name == Get(values, DisplayNameKey, JStr(<<"unknown-connection">>))
    IN  <<"CREATE CONNECTION IF NOT EXISTS ", BQ>> \o FString(display_name)
            \o <<BQ, " WITH (", NL, "  ">>
            \o Join(<<",", NL, "  ">>, with_clauses(values))
            \o <<NL, ")">>

RC_Idle ==
    /\ rc_pc = "idle"
    /\ rc_values = <<>>
    /\ rc_with_clauses = <<>>
    /\ rc_sql = <<>>

RC_Init ==
    /\ rc_pc = "call"
    /\ \E K \in KeySets : \E kinds \in [K -> ValueKinds] :
          rc_values = [key \in K |-> ValueOf(key, kinds[key])]
    /\ rc_with_clauses = <<>>
    /\ rc_sql = <<>>

\* one call of reconstruct_connection_sql
RC_Reconstruct ==
    /\ rc_pc = "call"
    /\ rc_with_clauses' = with_clauses(rc_values)
    /\ rc_sql' = reconstruct_connection_sql(rc_values)
    /\ rc_pc' = "done"
    /\ UNCHANGED rc_values
    /\ RC_Frame

(***************************************************************************)
(* extract_flink_statements and extract_core_llm_resources                 *)
(*                                                                         *)
(* The state file is missing, unparsable, or a JSON object whose key       *)
(* 'resources' is absent, null or a list.  A resource has a type and at    *)
(* most one instance; shape tells what the state file holds for it:        *)
(*   "no_instances"     no key 'instances'                                 *)
(*   "null_instances"   'instances' is null                                *)
(*   "no_attributes"    one instance without the key 'attributes'          *)
(*   "null_attributes"  one instance whose 'attributes' is null            *)
(*   "attributes"       one instance whose 'attributes' is the dict values *)
(* Names and connection types are sequences of characters.                 *)
(***************************************************************************)
StatementType == "confluent_flink_statement"
ConnectionType == "confluent_flink_connection"

StatementNameKey == <<"statement", "_", "name">>
StatementKey == <<"statement">>

Resource(type, shape, values) == [type |-> type, shape |-> shape, values |-> values]

EmptyDict == [key \in {} |-> JNull]
LlmName == <<"m", "y", "-", "L", "L", "M">>
OrdersName == <<"o", "r", "d", "e", "r", "s">>
Select == <<"SELECT * FROM ">>
ThreeParts == Select \o Render(<<"id", ".", "id", ".", "id">>, 1)
FiveParts == Select \o Render(<<"id", ".", "id", ".", "id", ".", "id", ".", "id">>, 1)

ResourcePool ==
    { Resource(StatementType, "attributes",
               (StatementNameKey :> JStr(LlmName)) @@ (StatementKey :> JStr(ThreeParts))),
      Resource(StatementType, "attributes",
               (StatementNameKey :> JStr(OrdersName)) @@ (StatementKey :> JStr(FiveParts))),
      Resource(StatementType, "attributes",
               (StatementNameKey :> JStr(LlmName)) @@ (StatementKey :> JStr(FiveParts))),
      Resource(StatementType, "attributes",
               (StatementNameKey :> JStr(LlmName)) @@ (StatementKey :> JNull)),
      Resource(StatementType, "attributes",
               (StatementNameKey :> JNull) @@ (StatementKey :> JStr(Select))),
      Resource(StatementType, "no_attributes", EmptyDict),
      Resource(StatementType, "null_attributes", EmptyDict),
      Resource(StatementType, "no_instances", EmptyDict),
      Resource(StatementType, "null_instances", EmptyDict),
      Resource(ConnectionType, "attributes",
               (TypeKey :> JStr(<<"B", "E", "D", "R", "O", "C", "K">>))
                   @@ (DisplayNameKey :> JStr(<<"c", "1">>))
                   @@ (EndpointKey :> JStr(<<"https://e">>))
                   @@ (<<"password">> :> JStr(<<"s3cr3t">>))),
      Resource(ConnectionType, "attributes",
               (TypeKey :> JStr(<<"o", "p", "e", "n", "a", "i">>))
                   @@ (DisplayNameKey :> JStr(<<"c", "2">>))
                   @@ (<<"api", "_", "key">> :> JStr(<<"sk-1">>))),
      Resource(ConnectionType, "attributes", (TypeKey :> JNull)),
      Resource(ConnectionType, "no_attributes", EmptyDict),
      Resource("confluent_kafka_topic", "null_attributes", EmptyDict) }

FileKinds == {"missing", "unparsable", "no_resources", "null_resources"}

StateFiles ==
    {[kind |-> k, resources |-> <<>>] : k \in FileKinds}
        \cup {[kind |-> "resources", resources |-> rs] :
                 rs \in UNION {[1..n -> ResourcePool] : n \in 0..MaxResources}}

UpperCase == <<"A", "B", "C", "D", "E", "F", "G", "H", "I", "J", "K", "L", "M",
               "N", "O", "P", "Q", "R", "S", "T", "U", "V", "W", "X", "Y", "Z">>
LowerCase == <<"a", "b", "c", "d", "e", "f", "g", "h", "i", "j", "k", "l", "m",
               "n", "o", "p", "q", "r", "s", "t", "u", "v", "w", "x", "y", "z">>

\* s.lower()
Lower(s) ==
    [i \in 1..Len(s) |->
        IF \E j \in 1..26 : UpperCase[j] = s[i]
        THEN LowerCase[CHOOSE j \in 1..26 : UpperCase[j] = s[i]]
        ELSE s[i]]

\* keyword in name
In(keyword, name) ==
    \E i \in 0..(Len(name) - Len(keyword)) : Literal(name, i, keyword)

\* line 167
llm_keywords ==
    << <<"l", "l", "m">>, <<"m", "o", "d", "e", "l">>,
       <<"t", "e", "x", "t", "g", "e", "n">>,
       <<"e", "m", "b", "e", "d", "d", "i", "n", "g">>,
       <<"b", "e", "d", "r", "o", "c", "k">>,
       <<"a", "z", "u", "r", "e", "o", "p", "e", "n", "a", "i">> >>

\* line 194
llm_connection_types ==
    { <<"b", "e", "d", "r", "o", "c", "k">>,
      <<"a", "z", "u", "r", "e", "o", "p", "e", "n", "a", "i">> }

\* f"-- Created in Core Terraform\n{sql}"
CoreComment == <<"-- Created in Core Terraform", NL>>

\* what one pass of a loop body gives: the exception it raises ("" for
\* none), whether it appends a command, and the command
Pass(exc, appends, title, sql) ==
    [exc |-> exc, appends |-> appends, title |-> title, sql |-> sql]
Skip == Pass("", FALSE, JNull, <<>>)
Raise(exc) == Pass(exc, FALSE, JNull, <<>>)

\* lines 93-119: the body of the two loops of extract_flink_statements for
\* resource r
FlinkStatementsPass(r) ==
    IF r.type = StatementType
    THEN IF r.shape = "null_attributes" THEN Raise("AttributeError")
         ELSE LET raw_sql == Get(r.values, StatementKey, JStr(<<>>))
              IN  IF raw_sql.k = "null" THEN Raise("TypeError")
                  ELSE Pass("", TRUE,
                            Get(r.values, StatementNameKey, JStr(<<"Unknown">>)),
                            sanitize_sql(raw_sql.s))
    ELSE IF r.type = ConnectionType
    THEN IF r.shape = "null_attributes" THEN Raise("AttributeError")
         ELSE Pass("", TRUE,
                   Get(r.values, DisplayNameKey, JStr(<<"Unknown Connection">>)),
                   reconstruct_connection_sql(r.values))
    ELSE Skip

\* line 176: any(keyword in statement_name for keyword in llm_keywords)
AnyKeyword(name) == \E i \in 1..Len(llm_keywords) : In(llm_keywords[i], name)

\* lines 169-202: the body of the two loops of extract_core_llm_resources
\* for resource r
CoreLlmResourcesPass(r) ==
    IF r.type = StatementType
    THEN IF r.shape = "null_attributes" THEN Raise("AttributeError")
         ELSE LET statement_name == Get(r.values, StatementNameKey, JStr(<<>>))
                  raw_sql == Get(r.values, StatementKey, JStr(<<>>))
              IN  IF statement_name.k = "null" THEN Raise("AttributeError")
                  ELSE IF ~AnyKeyword(Lower(statement_name.s)) THEN Skip
                  ELSE IF raw_sql.k = "null" THEN Raise("TypeError")
                  ELSE Pass("", TRUE,
                            Get(r.values, StatementNameKey, JStr(<<"Unknown">>)),
                            CoreComment \o sanitize_sql(raw_sql.s))
    ELSE IF r.type = ConnectionType
    THEN IF r.shape = "null_attributes" THEN Raise("AttributeError")
         ELSE LET conn_type == Get(r.values, TypeKey, JStr(<<>>))
              IN  IF conn_type.k = "null" THEN Raise("AttributeError")
                  ELSE IF Lower(conn_type.s) \notin llm_connection_types THEN Skip
                  ELSE Pass("", TRUE,
                            Get(r.values, DisplayNameKey, JStr(<<"Unknown Connection">>)),
                            CoreComment \o reconstruct_connection_sql(r.values))
    ELSE Skip

\* lines 82-89: the resources with an instance, the statements before the
\* connections as the two loops visit them
Instances(resources) ==
    LET HasInstance(r) == r.shape \notin {"no_instances", "null_instances"}
        IsStatement(r) == r.type = StatementType
        IsOther(r) == r.type # StatementType
    IN  SelectSeq(SelectSeq(resources, HasInstance), IsStatement)
            \o SelectSeq(SelectSeq(resources, HasInstance), IsOther)

Result(outcome, commands, warnings) ==
    [outcome |-> outcome, commands |-> commands, warnings |-> warnings]

\* the whole of function fn, the two functions differing in the body of
\* their loops and in the warning they print for a missing file
Extract(file, fn) ==
    LET NullInstances(r) == r.shape = "null_instances"
        LoopPass(r) == IF fn = "extract_flink_statements"
                       THEN FlinkStatementsPass(r) ELSE CoreLlmResourcesPass(r)
        not_found == IF fn = "extract_flink_statements"
                     THEN "State file not found" ELSE "Core state file not found"
        passes == [i \in 1..Len(Instances(file.resources)) |->
                      LoopPass(Instances(file.resources)[i])]
        Raises(p) == p.exc # ""
        Appends(p) == p.appends
        Command(p) == [title |-> p.title, sql |-> p.sql]
    IN  CASE file.kind = "missing" -> Result("return", <<>>, <<not_found>>)
          [] file.kind = "unparsable" ->
                Result("return", <<>>, <<"Failed to parse">>)
          [] file.kind = "null_resources" -> Result("TypeError", <<>>, <<>>)
          [] OTHER ->
                IF SelectSeq(file.resources, NullInstances) # <<>>
                THEN Result("TypeError", <<>>, <<>>)
                ELSE IF SelectSeq(passes, Raises) # <<>>
                THEN Result(SelectSeq(passes, Raises)[1].exc, <<>>, <<>>)
                ELSE Result("return",
                            [i \in 1..Len(SelectSeq(passes, Appends)) |->
                                Command(SelectSeq(passes, Appends)[i])],
                            <<>>)

\* lines 55-123
extract_flink_statements(file) == Extract(file, "extract_flink_statements")

\* lines 126-209
extract_core_llm_resources(file) == Extract(file, "extract_core_llm_resources")

TF_Idle ==
    /\ tf_pc = "idle"
    /\ tf_fn = ""
    /\ tf_file = [kind |-> "missing", resources |-> <<>>]
    /\ tf_result = Result("none", <<>>, <<>>)

TF_Init ==
    /\ tf_pc = "call"
    /\ tf_fn = ""
    /\ tf_file \in StateFiles
    /\ tf_result = Result("none", <<>>, <<>>)

\* one call of extract_flink_statements
TF_ExtractFlinkStatements ==
    /\ tf_pc = "call"
    /\ tf_fn' = "extract_flink_statements"
    /\ tf_result' = extract_flink_statements(tf_file)
    /\ tf_pc' = "done"
    /\ UNCHANGED tf_file
    /\ TF_Frame

\* one call of extract_core_llm_resources
TF_ExtractCoreLlmResources ==
    /\ tf_pc = "call"
    /\ tf_fn' = "extract_core_llm_resources"
    /\ tf_result' = extract_core_llm_resources(tf_file)
    /\ tf_pc' = "done"
    /\ UNCHANGED tf_file
    /\ TF_Frame

(***************************************************************************)
(* get_manual_commands_for_lab and generate_flink_sql_summary              *)
(*                                                                         *)
(* The document is kept as the row of its blocks, a block being the text   *)
(* between two blank lines.  An argument that can be None, a list or a     *)
(* string is a record telling which, with the list or the text.            *)
(***************************************************************************)
NoneArg == [kind |-> "none", items |-> <<>>, text |-> <<>>]
ListArg(items) == [kind |-> "list", items |-> items, text |-> <<>>]
StrArg(text) == [kind |-> "str", items |-> <<>>, text |-> text]

\* the truth value of an argument in an if
TruthyArg(a) == a.items # <<>> \/ a.text # <<>>

CommandPool ==
    { [title |-> <<"orders">>, sql |-> <<"SELECT 1">>],
      [title |-> <<"llm">>, sql |-> <<"CREATE MODEL m">>] }

CommandLists == UNION {[1..n -> CommandPool] : n \in 0..MaxItems}
ListArgs == {NoneArg} \cup {ListArg(items) : items \in CommandLists}

\* the walkthrough files: missing, one that cannot be read, or the lines
WalkthroughPool ==
    { <<>>,
      << <<"x">> >>,
      << <<"#", " ", "1", ".", " ", "x">> >>,
      << Fence \o Sql, <<"x">>, Fence >>,
      << <<"#", " ", "1", ".", " ", "x">>, Fence \o Sql, <<"x">>, Fence >> }

WalkthroughFiles ==
    {[kind |-> k, lines |-> <<>>] : k \in {"missing", "unreadable"}}
        \cup {[kind |-> "file", lines |-> ls] : ls \in WalkthroughPool}

LabNames == { <<"l", "a", "b", "1">>, <<"l", "a", "b", "2">>,
              <<"l", "a", "b", "3">>, <<"l", "a", "b", "4">> }

\* lines 45-49
markdown_files == { <<"l", "a", "b", "1">>, <<"l", "a", "b", "2">>, <<"l", "a", "b", "3">> }

CloudProviders == { <<"a", "w", "s">>, <<"a", "z", "u", "r", "e">> }

\* sql_extractors.py lines 299-304
extract_sql_from_lab_walkthroughs(txt) ==
    Join(<<NL, NL>>,
         [k \in 1..Len(FindIter(txt)) |-> Group0(txt, FindIter(txt)[k])])

\* get_manual_commands_for_lab taking a walkthrough that is missing or
\* cannot be read for one that holds the text "#"
get_manual_commands_for_lab_M(lab_name, file) ==
    IF lab_name \notin markdown_files
    THEN [result |-> <<>>, warnings |-> <<"Unknown lab name">>]
    ELSE IF file.kind \in {"missing", "unreadable"}
    THEN [result |-> <<"#">>, warnings |-> <<"Failed to extract from markdown">>]
    ELSE [result |-> extract_sql_from_lab_walkthroughs(Unlines(file.lines)),
          warnings |-> <<>>]

\* generate_lab_flink_summary.py lines 51-68: the string returned and the
\* warnings printed
get_manual_commands_for_lab(lab_name, file) ==
    IF lab_name \notin markdown_files
    THEN [result |-> <<>>, warnings |-> <<"Unknown lab name">>]
    ELSE IF file.kind = "missing"
    THEN [result |-> <<>>, warnings |-> <<"Walkthrough file not found">>]
    ELSE IF file.kind = "unreadable"
    THEN [result |-> <<>>, warnings |-> <<"Failed to extract from markdown">>]
    ELSE [result |-> extract_sql_from_lab_walkthroughs(Unlines(file.lines)),
          warnings |-> <<>>]

\* generate_lab_flink_summary.py line 116
lab_full_name(lab_name) ==
    lab_name \o
        (IF lab_name = <<"l", "a", "b", "1">>
         THEN <<"-", "t", "o", "o", "l", "-", "c", "a", "l", "l", "i", "n", "g">>
         ELSE IF lab_name = <<"l", "a", "b", "2">>
         THEN <<"-", "v", "e", "c", "t", "o", "r", "-", "s", "e", "a", "r", "c", "h">>
         ELSE <<"-", "a", "n", "o", "m", "a", "l", "y", "-",
                "d", "e", "t", "e", "c", "t", "i", "o", "n">>)

\* s.upper()
Upper(s) ==
    [i \in 1..Len(s) |->
        IF \E j \in 1..26 : LowerCase[j] = s[i]
        THEN UpperCase[CHOOSE j \in 1..26 : LowerCase[j] = s[i]]
        ELSE s[i]]

\* s.title(): a letter after a character that is no letter is put in upper
\* case, every other letter in lower case
Title(s) ==
    LET IsLetter(c) == \E j \in 1..26 : c \in {LowerCase[j], UpperCase[j]}
    IN  [i \in 1..Len(s) |->
            IF i = 1 \/ ~IsLetter(s[i - 1])
            THEN Upper(<<s[i]>>)[1] ELSE Lower(<<s[i]>>)[1]]

\* lines 415-426
HeaderBlocks(lab_name, cloud_provider) ==
    << <<"# ">> \o Title(Replace(lab_name, "-", " ")) \o <<" - Flink SQL Commands">>,
       <<"This file contains the Flink SQL commands used in ">>
           \o Title(Replace(lab_name, "-", " ")) \o <<".">>,
       <<"**Environment**: ", "env", NL, "**Cluster**: ", "cluster", NL,
         "**Cloud Provider**: ">> \o Upper(cloud_provider)
           \o <<NL, "**Region**: ", "region">>,
       <<"---">> >>

\* the items numbered from 0
ItemBlocks_M(cmds) ==
    [j \in 1..(2 * Len(cmds)) |->
        IF j % 2 = 1
        THEN <<"### ", ToString((j - 1) \div 2), ". ">> \o cmds[(j + 1) \div 2].title
        ELSE Fence \o <<"sql", NL>> \o cmds[j \div 2].sql \o <<NL>> \o Fence]

\* lines 433-435, 444-446, 460-462: the heading and the code block of
\* every command, numbered from 1
ItemBlocks(cmds) ==
    [j \in 1..(2 * Len(cmds)) |->
        IF j % 2 = 1
        THEN <<"### ", ToString((j + 1) \div 2), ". ">> \o cmds[(j + 1) \div 2].title
        ELSE Fence \o <<"sql", NL>> \o cmds[j \div 2].sql \o <<NL>> \o Fence]

\* lines 429-437
CoreBlocks(core_resources) ==
    IF TruthyArg(core_resources)
    THEN << <<"## ", "Shared Resources from Core Infrastructure">>,
            <<"The following LLM connections and models were created in Core Terraform and are used by this lab:">> >>
            \o ItemBlocks(core_resources.items)
            \o << <<"---">> >>
    ELSE <<>>

\* the automated section with no line for a lab without commands
AutomatedBlocks_M(automated_commands) ==
    << <<"## ", "Automated Commands (Created by Terraform)">>,
       <<"The following Flink SQL commands were automatically executed during Terraform deployment:">> >>
        \o ItemBlocks(automated_commands.items)

\* lines 440-448
AutomatedBlocks(automated_commands) ==
    << <<"## ", "Automated Commands (Created by Terraform)">>,
       <<"The following Flink SQL commands were automatically executed during Terraform deployment:">> >>
        \o (IF TruthyArg(automated_commands)
            THEN ItemBlocks(automated_commands.items)
            ELSE << <<"_No automated SQL commands for this lab._">> >>)

\* lines 450-464
ManualBlocks(manual_commands) ==
    << <<"---">>,
       <<"## ", "Manual Commands (From Walkthrough)">>,
       <<"The following commands are meant to be run manually as part of the lab walkthrough:">> >>
        \o (IF TruthyArg(manual_commands)
            THEN IF manual_commands.kind = "str"
                 THEN <<manual_commands.text>>
                 ELSE ItemBlocks(manual_commands.items)
            ELSE << <<"_No manual SQL commands for this lab._">> >>)

\* lines 467-477
FooterBlocks ==
    << <<"---">>,
       <<"## ", "Notes">>,
       <<"- This file is auto-generated during Terraform deployment", NL,
         "- Commands shown without full table qualification for readability", NL,
         "- Refer to the lab walkthrough for complete usage instructions and context", NL,
         "- This file will be automatically removed when running ", BQ, "uv run destroy", BQ>>,
       <<"**Generated**: ", "%Y-%m-%d %H:%M:%S UTC">> >>

\* the document with the automated section ahead of the core section
content_M(lab_name, args) ==
    HeaderBlocks(lab_name, args.cloud_provider)
        \o AutomatedBlocks(args.automated_commands)
        \o CoreBlocks(args.core_resources)
        \o ManualBlocks(args.manual_commands)
        \o FooterBlocks

\* generate_deployment_summary.py lines 415-477
content(lab_name, args) ==
    HeaderBlocks(lab_name, args.cloud_provider)
        \o CoreBlocks(args.core_resources)
        \o AutomatedBlocks(args.automated_commands)
        \o ManualBlocks(args.manual_commands)
        \o FooterBlocks

GS_Idle ==
    /\ gs_pc = "idle"
    /\ gs_lab_name = <<>>
    /\ gs_walkthrough = [kind |-> "unused", lines |-> <<>>]
    /\ gs_args = [cloud_provider |-> <<>>, core_resources |-> NoneArg,
                  automated_commands |-> NoneArg, manual_commands |-> NoneArg]
    /\ gs_warnings = <<>>
    /\ gs_content = <<>>

\* a call of generate_summary_for_lab that has read the Terraform state, or
\* a call of generate_flink_sql_summary with manual commands in the legacy
\* list format
GS_Init ==
    /\ gs_lab_name \in LabNames
    /\ gs_walkthrough \in WalkthroughFiles \cup {[kind |-> "unused", lines |-> <<>>]}
    /\ \E cp \in CloudProviders, core \in ListArgs, automated \in ListArgs, manual \in ListArgs :
          /\ gs_args = [cloud_provider |-> cp, core_resources |-> core,
                        automated_commands |-> automated, manual_commands |-> manual]
          /\ \/ /\ gs_pc = "lab"
                /\ gs_walkthrough.kind # "unused"
                /\ manual = NoneArg
             \/ /\ gs_pc = "summary"
                /\ gs_walkthrough.kind = "unused"
                /\ gs_lab_name = <<"l", "a", "b", "1">>
    /\ gs_warnings = <<>>
    /\ gs_content = <<>>

\* generate_lab_flink_summary.py line 108
GS_GetManualCommands ==
    /\ gs_pc = "lab"
    /\ gs_args' = [gs_args EXCEPT !.manual_commands =
                      StrArg(get_manual_commands_for_lab(gs_lab_name, gs_walkthrough).result)]
    /\ gs_warnings' = get_manual_commands_for_lab(gs_lab_name, gs_walkthrough).warnings
    /\ gs_pc' = "summary"
    /\ UNCHANGED <<gs_lab_name, gs_walkthrough, gs_content>>
    /\ GS_Frame

\* generate_lab_flink_summary.py lines 116-126 and
\* generate_deployment_summary.py lines 415-477
GS_GenerateSummary ==
    /\ gs_pc = "summary"
    /\ gs_content' = content(lab_full_name(gs_lab_name), gs_args)
    /\ gs_pc' = "done"
    /\ UNCHANGED <<gs_lab_name, gs_walkthrough, gs_args, gs_warnings>>
    /\ GS_Frame

(***************************************************************************)
(* deploy and destroy: terraform runs over the environments, the           *)
(* documentation written after a deployment and removed after a destroy.   *)
(***************************************************************************)
Core == "core"
Lab1 == "lab1-tool-calling"
Lab2 == "lab2-vector-search"
Lab3 == "lab3-agentic-fleet-management"
Environments == {Core, Lab1, Lab2, Lab3}
Labs == {Lab1, Lab2, Lab3}

\* the lists the two programs build from the user's choice
envs_to_deploy ==
    { <<Core, Lab1>>, <<Core, Lab2>>, <<Core, Lab3>>, <<Core, Lab2, Lab3>>,
      <<Core, Lab1, Lab2, Lab3>> }
envs_to_destroy ==
    { <<Lab3, Lab2, Lab1, Core>>, <<Core>>, <<Lab1>>, <<Lab2>>, <<Lab3>> }

\* file names, as sequences of pieces
TfstateFile == <<"terraform", ".tfstate">>
WorkspaceDir == <<"terraform", ".tfstate", ".d">>
TfvarsFile == <<"terraform", ".tfvars">>
DotTerraform == <<".terraform">>
LockFile == <<".terraform", ".lock.hcl">>
FlinkSummary == <<"FLINK_SQL_COMMANDS.md">>
McpCommands == <<"mcp_commands.txt">>
DeployedResources == <<"DEPLOYED_RESOURCES.md">>

\* the names that are directories: unlink() raises on them
IsDirectory(name) == name \in {DotTerraform, WorkspaceDir}

\* env_path.glob("*<piece>*"): the names with the piece in them
Glob(dir, piece) == {name \in dir : \E k \in 1..Len(name) : name[k] = piece}

\* a directory: whether env_path.exists(), and the names in it
Missing == [exists |-> FALSE, names |-> {}]
Dir(names) == [exists |-> TRUE, names |-> names]
Deployed == {TfstateFile, TfvarsFile, DotTerraform, LockFile, FlinkSummary, McpCommands}
Workspaces == {TfstateFile, WorkspaceDir, FlinkSummary}
LabDirs == {Missing, Dir({FlinkSummary}), Dir(Deployed), Dir(Workspaces)}
CoreDirs == {Missing, Dir({DeployedResources}), Dir(Deployed \cup {DeployedResources}),
             Dir(Workspaces \cup {DeployedResources})}

\* try: ... except <classes>: the exception that leaves the statement
Handles(cls, exc) == cls = "Exception" \/ cls = exc
Try(exc, classes) ==
    IF exc # "none" /\ \E cls \in classes : Handles(cls, exc) THEN "none" ELSE exc

NoWarnings == <<>>
Outcome(raised, warnings, written) ==
    [raised |-> raised, warnings |-> warnings, written |-> written]

\* what can go wrong while DEPLOYED_RESOURCES.md is generated
DocModes == {"ok", "output_fails", "bad_json", "malformed_outputs", "unwritable"}
\* what can go wrong while FLINK_SQL_COMMANDS.md is generated
FlinkModes == {"ok", "malformed_items", "unwritable"}

generate_credentials_markdown(doc) ==
    LET body == CASE doc = "malformed_outputs" -> "AttributeError"
                  [] doc = "unwritable" -> "PermissionError"
                  [] OTHER -> "none"
    IN  Outcome(Try(body, {"Exception"}),
                IF body = "none" THEN NoWarnings
                ELSE <<"Warning: Failed to generate DEPLOYED_RESOURCES.md">>,
                body = "none")

generate_deployment_summary_M(doc) ==
    LET inner == generate_credentials_markdown(doc)
        body == CASE doc = "output_fails" -> "CalledProcessError"
                  [] doc = "bad_json" -> "JSONDecodeError"
                  [] OTHER -> inner.raised
        called == doc \notin {"output_fails", "bad_json"}
    IN  Outcome(Try(body, {"JSONDecodeError"}),
                IF body # "none"
                THEN <<"Warning: Failed to generate deployment summary">>
                ELSE IF called THEN inner.warnings ELSE NoWarnings,
                called /\ inner.written)

generate_deployment_summary(doc) ==
    LET inner == generate_credentials_markdown(doc)
        body == CASE doc = "output_fails" -> "CalledProcessError"
                  [] doc = "bad_json" -> "JSONDecodeError"
                  [] OTHER -> inner.raised
        called == doc \notin {"output_fails", "bad_json"}
    IN  Outcome(Try(body, {"Exception"}),
                IF body # "none"
                THEN <<"Warning: Failed to generate deployment summary">>
                ELSE IF called THEN inner.warnings ELSE NoWarnings,
                called /\ inner.written)

generate_flink_sql_summary(mode) ==
    LET body == CASE mode = "malformed_items" -> "KeyError"
                  [] mode = "unwritable" -> "PermissionError"
                  [] OTHER -> "none"
    IN  Outcome(Try(body, {"Exception"}),
                IF body = "none" THEN NoWarnings
                ELSE <<"Warning: Failed to generate Flink SQL summary">>,
                body = "none")

\* what terraform does in one environment
TerraformOutcomes == {"ok", "init_failed", "command_failed"}
\* ... or "not_found" when the binary is not on the PATH
Outcomes(found) == IF found THEN TerraformOutcomes ELSE {"not_found"}

Returned_M(body) ==
    CASE body = "none" -> "True"
      [] Try(body, {"CalledProcessError"}) = "none" -> "True"
      [] Try(body, {"FileNotFoundError"}) = "none" -> "SystemExit"
      [] OTHER -> body

\* the try block shared by run_terraform and run_terraform_destroy: the
\* value returned, or how the call ends otherwise
Returned(body) ==
    CASE body = "none" -> "True"
      [] Try(body, {"CalledProcessError"}) = "none" -> "False"
      [] Try(body, {"FileNotFoundError"}) = "none" -> "SystemExit"
      [] OTHER -> body

run_terraform(env, found, outcome, doc) ==
    LET summary == generate_deployment_summary(doc)
        called == found /\ outcome = "ok" /\ env = Core
        body == IF ~found THEN "FileNotFoundError"
                ELSE IF outcome # "ok" THEN "CalledProcessError"
                ELSE IF env = Core THEN summary.raised
                ELSE "none"
    IN  [result |-> Returned(body),
         warnings |-> IF called THEN summary.warnings ELSE NoWarnings,
         written |-> called /\ summary.written]

\* _cleanup_deployment_summary
cleanup_deployment_summary(dir) == dir \ {DeployedResources}

run_terraform_destroy_M(env, found, outcome, dir) ==
    LET body == IF ~found THEN "FileNotFoundError"
                ELSE IF outcome # "ok" THEN "CalledProcessError"
                ELSE "none"
    IN  [result |-> Returned(body),
         dir |-> IF env = Core
                 THEN cleanup_deployment_summary(dir) ELSE dir]

run_terraform_destroy(env, found, outcome, dir) ==
    LET body == IF ~found THEN "FileNotFoundError"
                ELSE IF outcome # "ok" THEN "CalledProcessError"
                ELSE "none"
    IN  [result |-> Returned(body),
         dir |-> IF body = "none" /\ env = Core
                 THEN cleanup_deployment_summary(dir) ELSE dir]

\* cleanup_terraform_artifacts: the directories it can leave behind.  The
\* first unlink() of a directory raises, which ends the whole cleanup; glob
\* yields the names in the order of the file system, so any of the files it
\* matches may have been removed by then.
cleanup_terraform_artifacts(dir) ==
    LET tfstates == Glob(dir, ".tfstate")
        files == {name \in tfstates : ~IsDirectory(name)}
        rest == dir \ (tfstates \cup Glob(dir, ".tfvars"))
    IN  IF \E name \in tfstates : IsDirectory(name)
        THEN {dir \ removed : removed \in SUBSET files}
        ELSE {rest \ {DotTerraform, LockFile, FlinkSummary, McpCommands}}

\* write_tfvars_file makes the directory of the file; the file of core is
\* written with the Confluent key and secret, which deploy requires, the
\* file of a lab with the credentials of the lab
write_tfvars_for_deployment(dirs, envs, with_credentials) ==
    [env \in Environments |->
        IF /\ \E k \in 1..Len(envs) : envs[k] = env
           /\ env = Core \/ env \in with_credentials
        THEN Dir(dirs[env].names \cup {TfvarsFile})
        ELSE dirs[env]]

Entry(env, op, outcome, doc, call) ==
    [env |-> env, op |-> op, outcome |-> outcome, doc |-> doc,
     result |-> call.result, warnings |-> call.warnings, cleanup |-> call.cleanup]

Call(result, warnings, cleanup) ==
    [result |-> result, warnings |-> warnings, cleanup |-> cleanup]

EN_Idle ==
    /\ en_pc = "idle"
    /\ en_envs = <<>>
    /\ en_i = 0
    /\ en_terraform = TRUE
    /\ en_dirs = <<>>
    /\ en_log = <<>>

EN_InitDeploy ==
    /\ en_pc = "tfvars"
    /\ en_envs \in envs_to_deploy
    /\ en_i = 1
    /\ en_terraform \in BOOLEAN
    /\ en_dirs \in [Environments -> {Missing, Dir({})}]
    /\ en_log = <<>>

EN_InitDestroy ==
    /\ en_pc = "destroy"
    /\ en_envs \in envs_to_destroy
    /\ en_i = 1
    /\ en_terraform \in BOOLEAN
    /\ \E core \in CoreDirs : \E labs \in [Labs -> LabDirs] :
         en_dirs = [env \in Environments |-> IF env = Core THEN core ELSE labs[env]]
    /\ en_log = <<>>

\* deploy writes the terraform.tfvars files before the loop
EN_WriteTfvars ==
    /\ en_pc = "tfvars"
    /\ \E with_credentials \in SUBSET Labs :
         en_dirs' = write_tfvars_for_deployment(en_dirs, en_envs, with_credentials)
    /\ en_pc' = "deploy"
    /\ UNCHANGED <<en_envs, en_i, en_terraform, en_log>>
    /\ EN_Frame

\* deploy: one pass of the loop "for env in envs_to_deploy"
EN_Deploy ==
    /\ en_pc = "deploy"
    /\ en_i <= Len(en_envs)
    /\ LET env == en_envs[en_i] IN
         IF ~en_dirs[env].exists
         THEN /\ en_log' = Append(en_log,
                    Entry(env, "skip", "none", "none", Call("none", NoWarnings, FALSE)))
              /\ en_i' = en_i + 1
              /\ UNCHANGED <<en_pc, en_dirs>>
         ELSE \E outcome \in Outcomes(en_terraform) :
              \E doc \in (IF env = Core /\ outcome = "ok" THEN DocModes ELSE {"none"}) :
                LET call == run_terraform(env, en_terraform, outcome, doc) IN
                  /\ en_log' = Append(en_log,
                        Entry(env, "run_terraform", outcome, doc,
                              Call(call.result, call.warnings, FALSE)))
                  /\ en_dirs' = IF call.written
                                THEN [en_dirs EXCEPT ![env].names = @ \cup {DeployedResources}]
                                ELSE en_dirs
                  /\ IF call.result = "True"
                     THEN en_i' = en_i + 1 /\ en_pc' = en_pc
                     ELSE en_i' = en_i /\ en_pc' = "exit1"
    /\ UNCHANGED <<en_envs, en_terraform>>
    /\ EN_Frame

\* the end of either loop
EN_Completed ==
    /\ en_pc \in {"deploy", "destroy"}
    /\ en_i > Len(en_envs)
    /\ en_pc' = "completed"
    /\ UNCHANGED <<en_envs, en_i, en_terraform, en_dirs, en_log>>
    /\ EN_Frame

\* generate_flink_sql_summary writes the summary of a deployed lab
EN_FlinkSummary ==
    /\ en_pc = "completed"
    /\ \E k \in 1..Len(en_log) : \E mode \in FlinkModes :
         LET env == en_log[k].env
             call == generate_flink_sql_summary(mode)
         IN  /\ env \in Labs
             /\ en_log[k].op = "run_terraform"
             /\ \A j \in 1..Len(en_log) :
                  en_log[j].op = "generate_flink_sql_summary" => en_log[j].env # env
             /\ en_log' = Append(en_log,
                   Entry(env, "generate_flink_sql_summary", "none", mode,
                         Call(call.raised, call.warnings, FALSE)))
             /\ en_dirs' = IF call.written
                           THEN [en_dirs EXCEPT ![env].names = @ \cup {FlinkSummary}]
                           ELSE en_dirs
    /\ UNCHANGED <<en_pc, en_envs, en_i, en_terraform>>
    /\ EN_Frame

\* destroy: one pass of the loop "for env in envs_to_destroy"
EN_Destroy ==
    /\ en_pc = "destroy"
    /\ en_i <= Len(en_envs)
    /\ LET env == en_envs[en_i] IN
         IF ~en_dirs[env].exists
         THEN /\ en_log' = Append(en_log,
                    Entry(env, "skip", "none", "none", Call("none", NoWarnings, FALSE)))
              /\ en_i' = en_i + 1
              /\ UNCHANGED <<en_pc, en_dirs>>
         ELSE \E outcome \in Outcomes(en_terraform) :
                LET call == run_terraform_destroy(env, en_terraform, outcome, en_dirs[env].names) IN
                  /\ en_log' = Append(en_log,
                        Entry(env, "run_terraform_destroy", outcome, "none",
                              Call(call.result, NoWarnings, call.result = "True")))
                  /\ IF call.result = "True"
                     THEN \E dir \in cleanup_terraform_artifacts(call.dir) :
                            en_dirs' = [en_dirs EXCEPT ![env].names = dir]
                     ELSE en_dirs' = [en_dirs EXCEPT ![env].names = call.dir]
                  /\ IF call.result = "SystemExit"
                     THEN en_i' = en_i /\ en_pc' = "exit1"
                     ELSE en_i' = en_i + 1 /\ en_pc' = en_pc
    /\ UNCHANGED <<en_envs, en_terraform>>
    /\ EN_Frame

(***************************************************************************)
(* The summary command: main of scripts/generate_lab_flink_summary.py.     *)
(***************************************************************************)
CliLabs == {"lab1", "lab2", "lab3", "lab9"}
CliProviders == {"aws", "azure", "gcp", "AWS"}
\* the core directory next to the terraform directory: missing, or what
\* "terraform output -json" does in it
CoreKinds == {"missing", "outputs", "CalledProcessError", "FileNotFoundError",
              "JSONDecodeError"}

\* the three lists get_lab_commands returns, by their lengths
get_lab_commands(lab_name) ==
    CASE lab_name = "lab1" ->
           [automated |-> 5, manual |-> 1, core_resources |-> 1, warnings |-> NoWarnings]
      [] lab_name = "lab2" ->
           [automated |-> 4, manual |-> 2, core_resources |-> 2, warnings |-> NoWarnings]
      [] lab_name = "lab3" ->
           [automated |-> 4, manual |-> 2, core_resources |-> 0, warnings |-> NoWarnings]
      [] OTHER ->
           [automated |-> 0, manual |-> 0, core_resources |-> 0,
            warnings |-> <<"Warning: Unknown lab">>]

\* reading the outputs of core: the warnings printed, tf_outputs empty or not
read_outputs_M(core) ==
    IF core = "missing"
    THEN [raised |-> "SystemExit", warnings |-> <<"Warning: Core terraform directory not found">>,
          empty |-> TRUE]
    ELSE LET body == IF core = "outputs" THEN "none" ELSE core
             left == Try(body, {"CalledProcessError", "FileNotFoundError", "JSONDecodeError"})
         IN  [raised |-> left,
              warnings |-> IF body = "none" THEN NoWarnings
                           ELSE <<"Warning: Failed to read terraform outputs">>,
              empty |-> body # "none"]

read_outputs(core) ==
    IF core = "missing"
    THEN [raised |-> "none", warnings |-> <<"Warning: Core terraform directory not found">>,
          empty |-> TRUE]
    ELSE LET body == IF core = "outputs" THEN "none" ELSE core
             left == Try(body, {"CalledProcessError", "FileNotFoundError", "JSONDecodeError"})
         IN  [raised |-> left,
              warnings |-> IF body = "none" THEN NoWarnings
                           ELSE <<"Warning: Failed to read terraform outputs">>,
              empty |-> body # "none"]

Exit(status, warnings, written, commands) ==
    [status |-> status, warnings |-> warnings, written |-> written, commands |-> commands]

main(argv) ==
    IF argv.cloud_provider \notin {"aws", "azure"}
    THEN Exit(1, <<"Error: Invalid cloud provider">>, FALSE, 0)
    ELSE IF ~argv.terraform_dir_exists
    THEN Exit(1, <<"Error: Terraform directory not found">>, FALSE, 0)
    ELSE LET outputs == read_outputs(argv.core)
             commands == get_lab_commands(argv.lab_name)
             summary == generate_flink_sql_summary(argv.write)
         IN  IF outputs.raised # "none"
             THEN Exit(1, outputs.warnings, FALSE, 0)
             ELSE Exit(IF summary.raised = "none" THEN 0 ELSE 1,
                       outputs.warnings \o commands.warnings \o summary.warnings,
                       summary.written,
                       commands.automated + commands.manual + commands.core_resources)

CL_Idle ==
    /\ cl_pc = "idle"
    /\ cl_argv = <<>>
    /\ cl_exit = <<>>

CL_Init ==
    /\ cl_pc = "call"
    /\ cl_argv \in [lab_name : CliLabs, cloud_provider : CliProviders,
                    terraform_dir_exists : BOOLEAN, core : CoreKinds,
                    write : FlinkModes \ {"malformed_items"}]
    /\ cl_exit = <<>>

CL_Main ==
    /\ cl_pc = "call"
    /\ cl_pc' = "exited"
    /\ cl_exit' = main(cl_argv)
    /\ UNCHANGED cl_argv
    /\ CL_Frame

(***************************************************************************)
(* The publishers: publish_directory and publish_jsonl_file hand every     *)
(* input to a pool of workers; a worker parses its input, verifies the     *)
(* login under the lock of the publisher and publishes.                    *)
(***************************************************************************)
Inputs(n) == 1..n

\* the exception that leaves publish_document / publish_ride_request
publish_document_except(exc) == Try(Try(exc, {"TimeoutExpired"}), {"Exception"})

process_single_except_M(exc) == exc

\* the exception that leaves _process_single_file / _process_single_record
process_single_except(exc) == Try(exc, {"Exception"})

ParseOutcomes == {"parsed", "None", "raises"}
PublishOutcomes == {"published", "dry_run", "returncode", "TimeoutExpired", "raises"}

Task(pc, success, raised) == [pc |-> pc, success |-> success, raised |-> raised]
Queued == Task("queued", FALSE, "none")
\* the task has ended: its future holds a tuple or an exception
Done(success, raised) == Task("done", success /\ raised = "none", raised)

\* the tasks a thread of the pool is running
Running == {t \in DOMAIN pd_task : pd_task[t].pc \in {"verify", "locked", "checking", "publish"}}

PD_Idle ==
    /\ pd_pc = "idle"
    /\ pd_task = <<>>
    /\ pd_lock = 0
    /\ pd_login_verified = FALSE
    /\ pd_checks = 0
    /\ pd_results = <<>>

PD_Init ==
    /\ pd_pc = "call"
    /\ pd_task = <<>>
    /\ pd_lock = 0
    /\ pd_login_verified = FALSE
    /\ pd_checks = 0
    /\ pd_results = [success |-> 0, failed |-> 0, total |-> 0]

\* publish_jsonl_file: the file cannot be read
PD_ReadFailed ==
    /\ pd_pc = "call"
    /\ pd_pc' = "returned"
    /\ UNCHANGED <<pd_task, pd_lock, pd_login_verified, pd_checks, pd_results>>
    /\ PD_Frame

\* the inputs are counted and submitted to the executor
PD_Submit ==
    /\ pd_pc = "call"
    /\ \E n \in 0..MaxInputs :
         /\ pd_task' = [t \in Inputs(n) |-> Queued]
         /\ pd_results' = [pd_results EXCEPT !.total = n]
    /\ pd_pc' = "collect"
    /\ UNCHANGED <<pd_lock, pd_login_verified, pd_checks>>
    /\ PD_Frame

\* a free thread of the pool takes a task and parses its input
PD_Parse(t) ==
    /\ pd_task[t].pc = "queued"
    /\ Cardinality(Running) < MaxWorkers
    /\ \E parse \in ParseOutcomes :
         pd_task' = [pd_task EXCEPT ![t] =
            CASE parse = "parsed" -> Task("verify", FALSE, "none")
              [] parse = "None" -> Done(FALSE, "none")
              [] OTHER -> Done(FALSE, process_single_except("UnicodeDecodeError"))]
    /\ UNCHANGED <<pd_pc, pd_lock, pd_login_verified, pd_checks, pd_results>>
    /\ PD_Frame

\* _verify_login_once: with self._login_check_lock
PD_Acquire(t) ==
    /\ pd_task[t].pc = "verify"
    /\ pd_lock = 0
    /\ pd_lock' = t
    /\ pd_task' = [pd_task EXCEPT ![t].pc = "locked"]
    /\ UNCHANGED <<pd_pc, pd_login_verified, pd_checks, pd_results>>
    /\ PD_Frame

\* if self._login_verified: return True
PD_Verified(t) ==
    /\ pd_task[t].pc = "locked"
    /\ pd_login_verified
    /\ pd_lock' = 0
    /\ pd_task' = [pd_task EXCEPT ![t].pc = "publish"]
    /\ UNCHANGED <<pd_pc, pd_login_verified, pd_checks, pd_results>>
    /\ PD_Frame

\* check_confluent_login() is called
PD_Check(t) ==
    /\ pd_task[t].pc = "locked"
    /\ ~pd_login_verified
    /\ pd_checks' = pd_checks + 1
    /\ pd_task' = [pd_task EXCEPT ![t].pc = "checking"]
    /\ UNCHANGED <<pd_pc, pd_lock, pd_login_verified, pd_results>>
    /\ PD_Frame

\* check_confluent_login() returns, the lock is released
PD_Checked(t) ==
    /\ pd_task[t].pc = "checking"
    /\ \E logged_in \in BOOLEAN :
         /\ pd_login_verified' = logged_in
         /\ pd_task' = [pd_task EXCEPT ![t] =
               IF logged_in THEN Task("publish", FALSE, "none") ELSE Done(FALSE, "none")]
    /\ pd_lock' = 0
    /\ UNCHANGED <<pd_pc, pd_checks, pd_results>>
    /\ PD_Frame

\* the rest of publish_document / publish_ride_request
PD_Publish(t) ==
    /\ pd_task[t].pc = "publish"
    /\ \E outcome \in PublishOutcomes :
         pd_task' = [pd_task EXCEPT ![t] =
            CASE outcome \in {"published", "dry_run"} -> Done(TRUE, "none")
              [] outcome = "returncode" -> Done(FALSE, "none")
              [] outcome = "TimeoutExpired" ->
                   Done(FALSE, process_single_except(publish_document_except("TimeoutExpired")))
              [] OTHER ->
                   Done(FALSE, process_single_except(publish_document_except("KeyError")))]
    /\ UNCHANGED <<pd_pc, pd_lock, pd_login_verified, pd_checks, pd_results>>
    /\ PD_Frame

\* for future in as_completed(...): future.result() and the counters
PD_Collect(t) ==
    /\ pd_pc = "collect"
    /\ pd_task[t].pc = "done"
    /\ IF pd_task[t].raised # "none"
       THEN /\ pd_pc' = "raised"
            /\ UNCHANGED pd_results
       ELSE /\ pd_pc' = pd_pc
            /\ pd_results' = IF pd_task[t].success
                             THEN [pd_results EXCEPT !.success = @ + 1]
                             ELSE [pd_results EXCEPT !.failed = @ + 1]
    /\ pd_task' = [pd_task EXCEPT ![t].pc = "collected"]
    /\ UNCHANGED <<pd_lock, pd_login_verified, pd_checks>>
    /\ PD_Frame

\* return results
PD_Return ==
    /\ pd_pc = "collect"
    /\ \A t \in DOMAIN pd_task : pd_task[t].pc = "collected"
    /\ pd_pc' = "returned"
    /\ UNCHANGED <<pd_task, pd_lock, pd_login_verified, pd_checks, pd_results>>
    /\ PD_Frame

(***************************************************************************)
(* FlinkSQLHelper.wait_for_status                                          *)
(***************************************************************************)
Statuses == {"PENDING", "RUNNING", "COMPLETED", "FAILED", "STOPPED", "UNKNOWN"}
TargetLists == {{"RUNNING"}, {"RUNNING", "COMPLETED"}, {"STOPPED"}, {}}
FailureStates == {"FAILED", "STOPPED"}

wait_for_status_M(status, target_statuses, elapsed, timeout) ==
    IF status \in target_statuses THEN "return"
    ELSE IF elapsed >= timeout THEN "TimeoutError"
    ELSE IF status \in FailureStates THEN "RuntimeError"
    ELSE "sleep"

\* one pass of the loop after the status was read
wait_for_status(status, target_statuses, elapsed, timeout) ==
    IF status \in target_statuses THEN "return"
    ELSE IF status \in FailureStates THEN "RuntimeError"
    ELSE IF elapsed >= timeout THEN "TimeoutError"
    ELSE "sleep"

Reads == SelectSeq(fw_trace, LAMBDA e : e[1] = "read")

FW_Idle ==
    /\ fw_pc = "idle"
    /\ fw_args = <<>>
    /\ fw_now = 0
    /\ fw_status = ""
    /\ fw_trace = <<>>
    /\ fw_result = ""

FW_Init ==
    /\ fw_pc = "loop"
    /\ fw_args \in [target_statuses : TargetLists, timeout : 0..MaxWaitTimeout,
                    interval : 0..MaxWaitInterval]
    /\ fw_now = 0
    /\ fw_status = ""
    /\ fw_trace = <<>>
    /\ fw_result = ""

\* status = self.get_statement_status(name)
FH_Read ==
    /\ fw_pc = "loop"
    /\ Len(Reads) < MaxReads
    /\ \E took \in 0..1 : fw_now' = fw_now + took
    /\ \E status \in Statuses \cup {"CalledProcessError"} :
         IF status \in Statuses
         THEN /\ fw_status' = status
              /\ fw_trace' = Append(fw_trace, <<"read", status>>)
              /\ fw_pc' = "check"
              /\ UNCHANGED fw_result
         ELSE /\ fw_pc' = "raised"
              /\ fw_result' = status
              /\ UNCHANGED <<fw_status, fw_trace>>
    /\ UNCHANGED <<fw_args, ft_pc, ft_created, ft_service, ft_live, ft_cleanup, ft_calls>>
    /\ FH_Frame

\* the tests on the status read
FH_Check ==
    /\ fw_pc = "check"
    /\ LET step == wait_for_status(fw_status, fw_args.target_statuses, fw_now,
                                   fw_args.timeout)
       IN  CASE step = "return" -> fw_pc' = "returned" /\ fw_result' = fw_status
             [] step = "sleep" -> fw_pc' = "sleep" /\ fw_result' = fw_result
             [] OTHER -> fw_pc' = "raised" /\ fw_result' = step
    /\ UNCHANGED <<fw_args, fw_now, fw_status, fw_trace>>
    /\ UNCHANGED <<ft_pc, ft_created, ft_service, ft_live, ft_cleanup, ft_calls>>
    /\ FH_Frame

\* time.sleep(interval)
FH_Sleep ==
    /\ fw_pc = "sleep"
    /\ fw_now' = fw_now + fw_args.interval
    /\ fw_trace' = Append(fw_trace, <<"sleep", fw_args.interval>>)
    /\ fw_pc' = "loop"
    /\ UNCHANGED <<fw_args, fw_status, fw_result>>
    /\ UNCHANGED <<ft_pc, ft_created, ft_service, ft_live, ft_cleanup, ft_calls>>
    /\ FH_Frame

(***************************************************************************)
(* FlinkSQLHelper: execute_statement, delete_statement, cleanup_all        *)
(***************************************************************************)
StatementNames == {"a", "b"}
CreateOutcomes == {"ok", "CalledProcessError"}
DeleteOutcomes == {"ok", "CalledProcessError", "FileNotFoundError"}

\* list.remove(name): the list without the first name in it
Remove(list, name) ==
    LET k == CHOOSE i \in 1..Len(list) :
                 list[i] = name /\ \A j \in 1..(i - 1) : list[j] # name
    IN  SubSeq(list, 1, k - 1) \o SubSeq(list, k + 1, Len(list))

Names(list) == {list[k] : k \in 1..Len(list)}

\* execute_statement: the list after the call
execute_statement(created, name, outcome) ==
    IF outcome = "ok" THEN Append(created, name) ELSE created

\* delete_statement: the list after the call, the exception that leaves it
delete_statement(created, name, outcome) ==
    [created |-> IF outcome = "ok" /\ name \in Names(created)
                 THEN Remove(created, name) ELSE created,
     raised |-> Try(IF outcome = "ok" THEN "none" ELSE outcome, {"CalledProcessError"})]

\* what the service lets a command do: no second statement of a name, no
\* delete of a statement that is not there
CanCreate(name, outcome) == outcome = "ok" => name \notin ft_service
CanDelete(name, outcome) == outcome = "ok" => name \in ft_service

NoCleanup == [todo |-> <<>>, snapshot |-> <<>>, attempts |-> 0, failures |-> 0,
              raised |-> "none", done |-> FALSE]

FT_Idle ==
    /\ ft_pc = "idle"
    /\ ft_created = <<>>
    /\ ft_service = {}
    /\ ft_live = {}
    /\ ft_cleanup = NoCleanup
    /\ ft_calls = 0

FH_Idle == FW_Idle /\ FT_Idle

FT_Init ==
    /\ ft_pc = "ready"
    /\ ft_created = <<>>
    /\ ft_service \in SUBSET StatementNames
    /\ ft_live = {}
    /\ ft_cleanup = NoCleanup
    /\ ft_calls = 0

FH_Execute ==
    /\ ft_pc = "ready"
    /\ ft_calls < MaxCalls
    /\ \E name \in StatementNames : \E outcome \in CreateOutcomes :
         /\ CanCreate(name, outcome)
         /\ ft_created' = execute_statement(ft_created, name, outcome)
         /\ ft_service' = IF outcome = "ok" THEN ft_service \cup {name} ELSE ft_service
         /\ ft_live' = IF outcome = "ok" THEN ft_live \cup {name} ELSE ft_live
    /\ ft_calls' = ft_calls + 1
    /\ ft_cleanup' = NoCleanup
    /\ UNCHANGED ft_pc
    /\ UNCHANGED <<fw_pc, fw_args, fw_now, fw_status, fw_trace, fw_result>>
    /\ FH_Frame

FH_Delete ==
    /\ ft_pc = "ready"
    /\ ft_calls < MaxCalls
    /\ \E name \in StatementNames : \E outcome \in DeleteOutcomes :
         /\ CanDelete(name, outcome)
         /\ ft_created' = delete_statement(ft_created, name, outcome).created
         /\ ft_service' = IF outcome = "ok" THEN ft_service \ {name} ELSE ft_service
         /\ ft_live' = IF outcome = "ok" THEN ft_live \ {name} ELSE ft_live
    /\ ft_calls' = ft_calls + 1
    /\ ft_cleanup' = NoCleanup
    /\ UNCHANGED ft_pc
    /\ UNCHANGED <<fw_pc, fw_args, fw_now, fw_status, fw_trace, fw_result>>
    /\ FH_Frame

\* a statement is deleted by someone else ("statement may already be deleted")
FH_DeletedElsewhere ==
    /\ ft_pc = "ready"
    /\ \E name \in ft_service : ft_service' = ft_service \ {name}
    /\ UNCHANGED <<ft_pc, ft_created, ft_live, ft_cleanup, ft_calls>>
    /\ UNCHANGED <<fw_pc, fw_args, fw_now, fw_status, fw_trace, fw_result>>
    /\ FH_Frame

\* cleanup_all: for name in list(self.created_statements)
FH_CleanupAll ==
    /\ ft_pc = "ready"
    /\ ft_calls < MaxCalls
    /\ ft_pc' = "cleanup"
    /\ ft_cleanup' = [NoCleanup EXCEPT !.todo = ft_created, !.snapshot = ft_created]
    /\ ft_calls' = ft_calls + 1
    /\ UNCHANGED <<ft_created, ft_service, ft_live>>
    /\ UNCHANGED <<fw_pc, fw_args, fw_now, fw_status, fw_trace, fw_result>>
    /\ FH_Frame

\* one pass of the loop of cleanup_all
FH_CleanupStep ==
    /\ ft_pc = "cleanup"
    /\ ft_cleanup.todo # <<>>
    /\ \E outcome \in DeleteOutcomes :
         LET name == Head(ft_cleanup.todo)
             call == delete_statement(ft_created, name, outcome)
         IN  /\ CanDelete(name, outcome)
             /\ ft_created' = call.created
             /\ ft_service' = IF outcome = "ok" THEN ft_service \ {name} ELSE ft_service
             /\ ft_live' = IF outcome = "ok" THEN ft_live \ {name} ELSE ft_live
             /\ ft_cleanup' = [ft_cleanup EXCEPT
                    !.todo = Tail(@),
                    !.attempts = @ + 1,
                    !.failures = IF outcome = "ok" THEN @ ELSE @ + 1,
                    !.raised = IF @ # "none" THEN @ ELSE Try(call.raised, {"Exception"})]
    /\ UNCHANGED <<ft_pc, ft_calls>>
    /\ UNCHANGED <<fw_pc, fw_args, fw_now, fw_status, fw_trace, fw_result>>
    /\ FH_Frame

\* cleanup_all returns
FH_CleanupReturn ==
    /\ ft_pc = "cleanup"
    /\ ft_cleanup.todo = <<>>
    /\ ft_pc' = "ready"
    /\ ft_cleanup' = [ft_cleanup EXCEPT !.done = TRUE]
    /\ UNCHANGED <<ft_created, ft_service, ft_live, ft_calls>>
    /\ UNCHANGED <<fw_pc, fw_args, fw_now, fw_status, fw_trace, fw_result>>
    /\ FH_Frame

(***************************************************************************)
(* advance_time: the clock of the data generator.                          *)
(***************************************************************************)
\* one day in milliseconds, and the grain of the times of the model
Day == 1 * 24 * 60 * 60 * 1000
HalfDay == Day \div 2

StartingTimes == {k * HalfDay : k \in 0..MaxStart}
HistoricalDeltas == {k * HalfDay : k \in 0..MaxDelta}
RealtimeDeltas == {500, 1000}
Nows == {7 * Day, 8 * Day}

starting_timestamp(args) == args.startingTime - Day

\* x or y: y when x is None or 0
Or(x, y) == IF x = None \/ x = Some(0) THEN y ELSE x[1]

advance_time(args, state_in) ==
    LET state == Or(state_in, starting_timestamp(args)) IN
        IF state < args.startingTime
        THEN [value |-> [ts |-> state, throttle |-> 0],
              state |-> Some(state + args.historicalDelta)]
        ELSE [value |-> [ts |-> args.now, throttle |-> args.realtimeDelta],
              state |-> Some(state)]

\* before the first call there is no value
NoValue == [ts |-> 0, throttle |-> -1]

AT_Idle ==
    /\ at_pc = "idle"
    /\ at_args = <<>>
    /\ at_state = None
    /\ at_value = NoValue

AT_Init ==
    /\ at_pc = "calls"
    /\ at_args \in [startingTime : StartingTimes, historicalDelta : HistoricalDeltas,
                    realtimeDelta : RealtimeDeltas, now : Nows]
    /\ at_state = None
    /\ at_value = NoValue

\* one call, the state returned becoming the state of the next call
AT_Call ==
    /\ at_pc = "calls"
    /\ LET result == advance_time(at_args, at_state) IN
         /\ at_value' = result.value
         /\ at_state' = result.state
    /\ UNCHANGED <<at_pc, at_args>>
    /\ AT_Frame

(***************************************************************************)
(* The specifications: one component runs, the others rest.                *)
(***************************************************************************)
InitExtract == PU_Idle /\ PB_Idle /\ WX_Init /\ SS_Idle /\ RC_Idle /\ TF_Idle /\ GS_Idle /\ EN_Idle /\ CL_Idle /\ PD_Idle /\ FH_Idle /\ AT_Idle
NextExtract == WX_Extract
SpecExtract == InitExtract /\ [][NextExtract]_vars /\ WF_vars(NextExtract)

InitSanitize == PU_Idle /\ PB_Idle /\ WX_Idle /\ SS_Init /\ RC_Idle /\ TF_Idle /\ GS_Idle /\ EN_Idle /\ CL_Idle /\ PD_Idle /\ FH_Idle /\ AT_Idle
NextSanitize == SS_Sanitize
SpecSanitize == InitSanitize /\ [][NextSanitize]_vars /\ WF_vars(NextSanitize)

InitConnection == PU_Idle /\ PB_Idle /\ WX_Idle /\ SS_Idle /\ RC_Init /\ TF_Idle /\ GS_Idle /\ EN_Idle /\ CL_Idle /\ PD_Idle /\ FH_Idle /\ AT_Idle
NextConnection == RC_Reconstruct
SpecConnection == InitConnection /\ [][NextConnection]_vars /\ WF_vars(NextConnection)

InitState == PU_Idle /\ PB_Idle /\ WX_Idle /\ SS_Idle /\ RC_Idle /\ TF_Init /\ GS_Idle /\ EN_Idle /\ CL_Idle /\ PD_Idle /\ FH_Idle /\ AT_Idle
NextState ==
    \/ TF_ExtractFlinkStatements
    \/ TF_ExtractCoreLlmResources
SpecState == InitState /\ [][NextState]_vars /\ WF_vars(NextState)

InitSummary ==
    PU_Idle /\ PB_Idle /\ WX_Idle /\ SS_Idle /\ RC_Idle /\ TF_Idle /\ GS_Init /\ EN_Idle /\ CL_Idle /\ PD_Idle /\ FH_Idle /\ AT_Idle
NextSummary ==
    \/ GS_GetManualCommands
    \/ GS_GenerateSummary
SpecSummary == InitSummary /\ [][NextSummary]_vars /\ WF_vars(NextSummary)

(***************************************************************************)
(* One call of one of the two polling helpers.                             *)
(***************************************************************************)
InitPolling ==
    \/ PU_Init /\ PB_Idle /\ WX_Idle /\ SS_Idle /\ RC_Idle /\ TF_Idle /\ GS_Idle /\ EN_Idle /\ CL_Idle /\ PD_Idle /\ FH_Idle /\ AT_Idle
    \/ PU_Idle /\ PB_Init /\ WX_Idle /\ SS_Idle /\ RC_Idle /\ TF_Idle /\ GS_Idle /\ EN_Idle /\ CL_Idle /\ PD_Idle /\ FH_Idle /\ AT_Idle

NextPolling ==
    \/ PU_Next
    \/ PB_Next

\* A helper is one synchronous thread of control: it always takes its next step.
SpecPolling == InitPolling /\ [][NextPolling]_vars /\ WF_vars(NextPolling)

(***************************************************************************)
(* Properties of the polling helpers.                                      *)
(***************************************************************************)
\* the exception poll_until has raised or is about to handle
PU_Pending == IF pu_pc = "raised" THEN pu_result ELSE pu_exc

Max(a, b) == IF a >= b THEN a ELSE b
Min(a, b) == IF a <= b THEN a ELSE b

\* C1: an exception raised by getter() is handled as a failed attempt (sleep,
\* then poll again) while the timeout has not elapsed, and is raised as a
\* TimeoutError wrapping the exception's message once it has; this for every
\* exception type of the getter.
C1_GetterErrorIsFailedAttempt ==
    [][(pu_pc = "except" /\ pu_outcome = "getter_raised") =>
         IF pu_elapsed < Ticks(pu_timeout)
           THEN /\ pu_pc' = "loop"
                /\ pu_sleeps' = pu_sleeps + 1
           ELSE /\ pu_pc' = "raised"
                /\ pu_result'[1].type = "TimeoutError"
                /\ pu_result'[1].cause = Some(Str(pu_exc[1]))]_vars

\* C2: when the value of an attempt fails the condition and the elapsed time
\* has reached the timeout, the call fails with a TimeoutError that reports
\* the elapsed time (at least the timeout), the attempt count (the number of
\* getter calls made) and the value of that last attempt.
C2_TimeoutReportsContext ==
    (pu_outcome = "cond_false" /\ pu_elapsed >= Ticks(pu_timeout)) =>
        /\ pu_pc \in {"except", "raised"}
        /\ PU_Pending # None
        /\ LET e == PU_Pending[1] IN
            /\ e.type = "TimeoutError"
            /\ e.elapsed # None
            /\ e.elapsed[1] >= 10 * pu_timeout
            /\ e.attempts = Some(pu_calls)
            /\ pu_value # None
            /\ e.value = pu_value

\* getter constantly 1, condition never true, timeout=1, interval=1: raised on
\* the second attempt with last value 1 and an elapsed time of 1.0 s or more
C2_Witness ==
    /\ pu_pc = "raised"
    /\ pu_outcome = "cond_false"
    /\ pu_timeout = 1
    /\ pu_interval = 1
    /\ pu_attempt = 2
    /\ pu_result[1].value = Some(1)
    /\ pu_result[1].elapsed[1] >= 10

\* C3: poll_until returns only a value that a getter call of this invocation
\* produced and that satisfies the condition; it returns on the first such
\* attempt, with no sleep after it (so on attempt 1 with zero sleeps when the
\* first value satisfies the condition).
C3_ReturnsFirstSatisfyingValue ==
    /\ pu_pc = "returned" =>
        /\ pu_outcome = "cond_true"
        /\ pu_result = pu_value
        /\ pu_result # None
        /\ pu_cond[pu_result[1]] = "true"
        /\ pu_hits = 1
        /\ pu_attempt = pu_calls
        /\ pu_sleeps = pu_attempt - 1
    /\ pu_hits >= 1 => pu_pc = "returned"
    /\ (pu_attempt = 1 /\ pu_outcome = "cond_true") =>
            (pu_pc = "returned" /\ pu_sleeps = 0)

\* returned on the second attempt, after one attempt that failed and one sleep
C3_Witness ==
    /\ pu_pc = "returned"
    /\ pu_attempt = 2
    /\ pu_sleeps = 1

\* C4: poll_until has a hard deadline: with every sleep advancing the clock
\* by at least interval > 0 the call ends (returns or raises), and an attempt
\* that starts with elapsed >= timeout is the last one: no sleep and no
\* further attempt follows it.
C4_HardDeadline ==
    /\ []((pu_pc = "loop" /\ pu_attempt > 0) => pu_elapsed < Ticks(pu_timeout))
    /\ ((pu_pc = "loop") ~> PU_Done)

\* a getter that raised on every attempt, ended at the deadline
C4_Witness ==
    /\ pu_pc = "raised"
    /\ pu_outcome = "getter_raised"
    /\ pu_attempt >= 3
    /\ pu_sleeps = pu_attempt - 1
    /\ pu_elapsed >= Ticks(pu_timeout)

\* C5: poll_with_exponential_backoff sleeps initial_delay * 2^i after the
\* failed attempt i when attempts remain and does not sleep after the final
\* attempt: the sleeps are initial_delay, 2 * initial_delay, ..., and when no
\* attempt succeeds there are max_retries - 1 of them and the TimeoutError
\* reports max_retries attempts.
C5_BackoffDelays ==
    /\ \A k \in 1..Len(pb_sleeps) :
            pb_sleeps[k] = pb_initial_delay * Pow2(k - 1)
    /\ Len(pb_sleeps) <= Max(pb_max_retries - 1, 0)
    /\ pb_pc = "loop" =>
            Len(pb_sleeps) = Min(pb_attempt, Max(pb_max_retries - 1, 0))
    /\ pb_pc = "raised" =>
            /\ Len(pb_sleeps) = Max(pb_max_retries - 1, 0)
            /\ pb_result[1].attempts = Some(pb_max_retries)

\* initial_delay=1, max_retries=3, condition never met: slept 1 s then 2 s
C5_Witness ==
    /\ pb_pc = "raised"
    /\ pb_initial_delay = 1
    /\ pb_max_retries = 3
    /\ pb_outcome = "cond_false"
    /\ pb_sleeps = <<1, 2>>
    /\ pb_result[1].attempts = Some(3)

\* C6: an exception of getter() on the final attempt is raised as a
\* TimeoutError carrying its message; on an earlier attempt it is swallowed
\* and followed by that attempt's backoff sleep and another attempt.
C6_FinalAttemptErrorRaised ==
    [][(pb_pc = "except" /\ pb_outcome = "getter_raised") =>
         IF pb_attempt = pb_max_retries - 1
           THEN /\ pb_pc' = "raised"
                /\ pb_result'[1].type = "TimeoutError"
                /\ pb_result'[1].cause = Some(Str(pb_exc[1]))
           ELSE /\ pb_pc' = "loop"
                /\ pb_attempt' = pb_attempt + 1
                /\ pb_attempt' < pb_max_retries
                /\ pb_sleeps' =
                      Append(pb_sleeps, pb_initial_delay * Pow2(pb_attempt))]_vars

\* the getter raised on the final attempt, after an earlier attempt that raised
C6_Witness ==
    /\ pb_pc = "raised"
    /\ pb_outcome = "getter_raised"
    /\ pb_attempt >= 1
    /\ pb_result[1].cause = Some("boom")

\* C7: poll_with_exponential_backoff is bounded by the attempt count: for
\* every max_retries >= 0 it ends, calls getter at most max_retries times,
\* returns the value of the first attempt whose condition holds with no
\* further getter call, and has called getter exactly max_retries times when
\* it raises.
C7_BoundedByAttemptCount ==
    /\ [](/\ pb_calls <= pb_max_retries
          /\ pb_pc = "returned" =>
                /\ pb_result = pb_value
                /\ pb_result # None
                /\ pb_cond[pb_result[1]] = "true"
                /\ pb_hits = 1
                /\ pb_calls = pb_attempt + 1
          /\ pb_hits >= 1 => pb_pc = "returned"
          /\ pb_pc = "raised" =>
                /\ pb_calls = pb_max_retries
                /\ pb_hits = 0)
    /\ ((pb_pc = "loop") ~> PB_Done)

\* every one of max_retries attempts was made and none succeeded
C7_Witness ==
    /\ pb_pc = "raised"
    /\ pb_max_retries = MaxRetries
    /\ pb_calls = MaxRetries

\* the exceptions the helpers have raised
RaisedErrors ==
    (IF pu_pc = "raised" THEN {pu_result[1]} ELSE {})
        \cup (IF pb_pc = "raised" THEN {pb_result[1]} ELSE {})

RECURSIVE LineOffset(_, _)
LineOffset(ls, k) ==
    IF k = 1 THEN 0 ELSE LineOffset(ls, k - 1) + Len(ls[k - 1]) + 1

\* a line that opens a fenced block, and the tag after its fence
StartsWithFence(l) == Len(l) >= Len(Fence) /\ SubSeq(l, 1, Len(Fence)) = Fence
FenceTag(l) == SubSeq(l, Len(Fence) + 1, Len(l))

\* The fenced blocks of a markdown document as its author reads it, from
\* line k on: a block runs from a line that starts with a fence to the next
\* line that is a bare fence.
RECURSIVE FencedBlocks(_, _)
FencedBlocks(ls, k) ==
    IF k > Len(ls) THEN {}
    ELSE IF StartsWithFence(ls[k])
      THEN LET closers == {c \in (k + 1)..Len(ls) : ls[c] = Fence}
           IN  IF closers = {} THEN {}
               ELSE {[open |-> k, close |-> SetMin(closers)]}
                        \cup FencedBlocks(ls, SetMin(closers) + 1)
      ELSE FencedBlocks(ls, k + 1)

\* Every fence of the document, from line k on, opens a block or closes one:
\* each block is closed, and no line inside a block starts with a fence.
RECURSIVE WellFenced(_, _)
WellFenced(ls, k) ==
    IF k > Len(ls) THEN TRUE
    ELSE IF StartsWithFence(ls[k])
      THEN LET fences == {c \in (k + 1)..Len(ls) : StartsWithFence(ls[c])}
           IN  /\ fences # {}
               /\ ls[SetMin(fences)] = Fence
               /\ WellFenced(ls, SetMin(fences) + 1)
      ELSE WellFenced(ls, k + 1)

BlockStart(ls, b) == LineOffset(ls, b.open)
BlockEnd(ls, b) == LineOffset(ls, b.close) + Len(Fence)

PlainTags == {Sql, Bash}
NoParseTags == {Sql \o <<" ">> \o NoParse, Bash \o <<" ">> \o NoParse}

\* C9: no part of a fenced block tagged exactly "sql no-parse" or
\* "bash no-parse" is in the output, and every fenced block tagged plain
\* "sql" or "bash" is in the output whole, fence markers included.  Stated
\* for the documents whose fences pair up, where a block is what every
\* reading of markdown takes it to be.
C9_NoParseExcludedPlainVerbatim ==
    (wx_pc = "done" /\ WellFenced(wx_lines, 1)) =>
        \A b \in FencedBlocks(wx_lines, 1) :
            /\ FenceTag(wx_lines[b.open]) \in NoParseTags =>
                  \A k \in 1..Len(wx_matches) :
                      \/ wx_matches[k].end <= BlockStart(wx_lines, b)
                      \/ wx_matches[k].start >= BlockEnd(wx_lines, b)
            /\ FenceTag(wx_lines[b.open]) \in PlainTags =>
                  \E k \in 1..Len(wx_matches) :
                      /\ wx_matches[k].start = BlockStart(wx_lines, b)
                      /\ wx_matches[k].end = BlockEnd(wx_lines, b)

\* a markdown heading line of level 1 to 3 whose text begins with an integer
\* followed by a period
NumberedHeading(l) ==
    LET a == RunEnd(l, 0, {"#"})
        b == RunEnd(l, a, {" ", "\t"})
        c == RunEnd(l, b, Digits)
    IN  /\ a \in 1..3
        /\ b > a
        /\ c > b
        /\ CharAt(l, c) = "."

\* the matches of the header alternative, and those of the block alternatives
HeaderMatches == {k \in 1..Len(wx_matches) : CharAt(wx_txt, wx_matches[k].start) = "#"}
BlockMatches == {k \in 1..Len(wx_matches) : CharAt(wx_txt, wx_matches[k].start) = BQ}

\* match k is exactly line i of the document
IsLine(k, i) ==
    /\ wx_matches[k].start = LineOffset(wx_lines, i)
    /\ wx_matches[k].end = LineOffset(wx_lines, i) + Len(wx_lines[i])

\* line i lies inside an emitted code block
InEmittedBlock(i) ==
    \E k \in BlockMatches :
        /\ wx_matches[k].start <= LineOffset(wx_lines, i)
        /\ LineOffset(wx_lines, i) < wx_matches[k].end

\* C11: a line is extracted as a header if and only if it is a heading line
\* of level 1 to 3 whose text begins with an integer followed by a period:
\* every emitted header is a single source line of that shape, and every
\* such line outside the emitted code blocks is emitted.
C11_HeaderIffNumberedHeading ==
    wx_pc = "done" =>
        /\ \A k \in HeaderMatches :
              \E i \in 1..Len(wx_lines) :
                  IsLine(k, i) /\ NumberedHeading(wx_lines[i])
        /\ \A i \in 1..Len(wx_lines) :
              (NumberedHeading(wx_lines[i]) /\ ~InEmittedBlock(i)) =>
                  \E k \in HeaderMatches : IsLine(k, i)

\* the offset in the output of fragment k
RECURSIVE FragmentOffset(_, _)
FragmentOffset(ms, k) ==
    IF k = 1 THEN 0
    ELSE FragmentOffset(ms, k - 1) + (ms[k - 1].end - ms[k - 1].start) + 2

\* C10: the fragments are emitted in source order: the matches do not
\* overlap and their start offsets increase, whatever their kinds, and the
\* output is the matched texts in that order with a blank line between them.
C10_FragmentsInSourceOrder ==
    wx_pc = "done" =>
        LET ms == wx_matches
            n == Len(wx_matches)
        IN  /\ \A k \in 1..n :
                  /\ 0 <= ms[k].start
                  /\ ms[k].start < ms[k].end
                  /\ ms[k].end <= Len(wx_txt)
            /\ \A k \in 2..n : ms[k - 1].end <= ms[k].start
            /\ Len(wx_result) =
                  IF n = 0 THEN 0
                  ELSE FragmentOffset(ms, n) + (ms[n].end - ms[n].start)
            /\ \A k \in 1..n :
                  \A i \in 1..(ms[k].end - ms[k].start) :
                      wx_result[FragmentOffset(ms, k) + i] = wx_txt[ms[k].start + i]
            /\ \A k \in 2..n :
                  /\ wx_result[FragmentOffset(ms, k) - 1] = NL
                  /\ wx_result[FragmentOffset(ms, k)] = NL

\* a code block followed by a numbered header, emitted in that order
C10_Witness ==
    /\ wx_pc = "done"
    /\ Len(wx_matches) = 2
    /\ CharAt(wx_txt, wx_matches[1].start) = BQ
    /\ CharAt(wx_txt, wx_matches[2].start) = "#"
    /\ wx_matches[1].end < wx_matches[2].start

(***************************************************************************)
(* Properties of sanitize_sql.                                             *)
(***************************************************************************)
\* C12: sanitize_sql is idempotent: sanitising a text that sanitize_sql
\* returned gives that text again.
C12_SanitizeIdempotent ==
    ss_pc = "done" => sanitize_sql(ss_sanitized) = ss_sanitized

(***************************************************************************)
(* Properties of reconstruct_connection_sql.                               *)
(***************************************************************************)
\* text t occurs in text s
Contains(s, t) == \E i \in 0..(Len(s) - Len(t)) : Literal(s, i, t)

\* key is held with a string that is not empty
NonEmpty(values, key) ==
    /\ key \in DOMAIN values
    /\ values[key].k = "str"
    /\ values[key].s # <<>>

\* the attributes of the credential list held with a non-empty value, in
\* the order of the list
HeldCredentials(values) ==
    LET Held(attr) == NonEmpty(values, attr)
    IN  SelectSeq(credential_attrs, Held)

\* the entry for a credential attribute: its key with hyphens for
\* underscores, and its value as the state file has it
CredentialEntry(values, attr) ==
    <<"'">> \o [i \in 1..Len(attr) |-> IF attr[i] = "_" THEN "-" ELSE attr[i]]
        \o <<"' = '">> \o values[attr].s \o <<"'">>

\* the entries of with_clauses from the n-th on are those of the credentials held
CredentialEntriesFrom(n) ==
    LET held == HeldCredentials(rc_values)
    IN  /\ Len(rc_with_clauses) = n - 1 + Len(held)
        /\ \A i \in 1..Len(held) :
              /\ rc_with_clauses[n - 1 + i] = CredentialEntry(rc_values, held[i])
              /\ Contains(rc_sql, rc_with_clauses[n - 1 + i])

\* entry e is an entry for key
EntryFor(e, key) == Literal(e, 0, <<"'">> \o key \o <<"' = '">>)

\* C14 as stated: the WITH clause starts with an entry for type and an
\* entry for endpoint, followed by exactly one entry for each attribute of
\* the credential list held with a non-empty value.
C14_TypeAndEndpointThenCredentials ==
    rc_pc = "done" =>
        /\ Len(rc_with_clauses) >= 2
        /\ EntryFor(rc_with_clauses[1], TypeKey)
        /\ EntryFor(rc_with_clauses[2], EndpointKey)
        /\ CredentialEntriesFrom(3)

\* C14, amended: the WITH clause starts with the entry for type, then the
\* entry for endpoint if and only if the endpoint is held with a non-empty
\* value, followed by exactly one entry for each attribute of the
\* credential list held with a non-empty value, its key with hyphens for
\* underscores and its value verbatim.
C14_TypeThenEndpointIfAnyThenCredentials ==
    rc_pc = "done" =>
        /\ Len(rc_with_clauses) >= 1
        /\ EntryFor(rc_with_clauses[1], TypeKey)
        /\ Contains(rc_sql, rc_with_clauses[1])
        /\ IF NonEmpty(rc_values, EndpointKey)
           THEN /\ Len(rc_with_clauses) >= 2
                /\ rc_with_clauses[2] =
                      <<"'">> \o EndpointKey \o <<"' = '">>
                          \o rc_values[EndpointKey].s \o <<"'">>
                /\ Contains(rc_sql, rc_with_clauses[2])
                /\ CredentialEntriesFrom(3)
           ELSE CredentialEntriesFrom(2)

\* a password and a connection string are both held, one of them under a
\* key with an underscore, and both appear in the statement returned
C14_Witness ==
    /\ rc_pc = "done"
    /\ NonEmpty(rc_values, <<"password">>)
    /\ NonEmpty(rc_values, <<"connection", "_", "string">>)
    /\ NonEmpty(rc_values, EndpointKey)
    /\ Len(rc_with_clauses) = 4
    /\ Contains(rc_sql, rc_values[<<"password">>].s)
    /\ Contains(rc_sql, <<"connection", "-", "string">>)

(***************************************************************************)
(* Properties of the extraction from the Terraform state.                  *)
(***************************************************************************)
\* txt holds a three-part backquoted identifier `x`.`y`.`z`
HasQualified(txt) == \E i \in 0..Len(txt) : MatchQualified(txt, i).end >= 0

\* C13: no body returned by extract_flink_statements or by
\* extract_core_llm_resources holds a three-part identifier `x`.`y`.`z`.
C13_NoQualifiedIdentifierInBodies ==
    tf_pc = "done" =>
        \A i \in 1..Len(tf_result.commands) :
            ~HasQualified(tf_result.commands[i].sql)

\* C15: state extraction never raises to its caller, and for a state file
\* that is missing or is not parsable JSON it returns the empty list after
\* printing a warning.
C15_NeverRaises ==
    tf_pc = "done" =>
        /\ tf_result.outcome = "return"
        /\ tf_file.kind \in {"missing", "unparsable"} =>
              /\ tf_result.commands = <<>>
              /\ tf_result.warnings # <<>>

\* the record is a statement whose lowercased name holds a keyword, or a
\* connection whose type, whatever its case, is in the provider set
CoreRecord(r) ==
    /\ r.shape = "attributes"
    /\ \/ /\ r.type = StatementType
          /\ StatementNameKey \in DOMAIN r.values
          /\ r.values[StatementNameKey].k = "str"
          /\ \E i \in 1..Len(llm_keywords) :
                In(llm_keywords[i], Lower(r.values[StatementNameKey].s))
       \/ /\ r.type = ConnectionType
          /\ TypeKey \in DOMAIN r.values
          /\ r.values[TypeKey].k = "str"
          /\ Lower(r.values[TypeKey].s) \in llm_connection_types

\* the title of a record
TitleOf(r) ==
    IF r.type = StatementType THEN r.values[StatementNameKey]
    ELSE Get(r.values, DisplayNameKey, JStr(<<"Unknown Connection">>))

\* C16: extract_core_llm_resources includes a statement record if and only
\* if its lowercased name holds a keyword, and a connection record if and
\* only if its type is in the provider set; the body of every item it
\* includes begins with the comment that marks it as coming from the core,
\* and no body returned by extract_flink_statements gets that comment.
C16_CoreFiltering ==
    tf_pc = "done" =>
        LET records == SelectSeq(Instances(tf_file.resources), CoreRecord)
            items == tf_result.commands
        IN  IF tf_fn = "extract_core_llm_resources"
            THEN /\ Len(items) = Len(records)
                 /\ \A i \in 1..Len(items) :
                       /\ items[i].title = TitleOf(records[i])
                       /\ Literal(items[i].sql, 0, CoreComment)
            ELSE \A i \in 1..Len(items) : ~Literal(items[i].sql, 0, CoreComment)

(***************************************************************************)
(* Properties of the Flink SQL summary.                                    *)
(***************************************************************************)
Rule == <<"---">>
IsHeading(b) == b # <<>> /\ b[1] \in {"# ", "## ", "### "}
IsSectionHeading(b) == b # <<>> /\ b[1] \in {"# ", "## "}

CoreHeading == <<"## ", "Shared Resources from Core Infrastructure">>
AutomatedHeading == <<"## ", "Automated Commands (Created by Terraform)">>
ManualHeading == <<"## ", "Manual Commands (From Walkthrough)">>
NotesHeading == <<"## ", "Notes">>

\* the places of block b in the document
Places(b) == {i \in 1..Len(gs_content) : gs_content[i] = b}

\* the places of the blocks that begin with token t
PlacesOf(t) == {i \in 1..Len(gs_content) : gs_content[i] # <<>> /\ gs_content[i][1] = t}

\* the blocks under the heading h, up to the next rule or the end
SectionBody(h) ==
    LET i == CHOOSE p \in Places(h) : TRUE
        stops == {j \in (i + 1)..Len(gs_content) : gs_content[j] = Rule}
        end == IF stops = {} THEN Len(gs_content) ELSE SetMin(stops) - 1
    IN  SubSeq(gs_content, i + 1, end)

\* the warning that heads DEPLOYED_RESOURCES.md
SecurityWarning ==
    "**WARNING: This file contains API keys, secrets, and other sensitive credentials. Do not commit to version control or share publicly.**"

\* C17 as stated: the document holds, in this order, a security warning
\* header, the metadata, the shared/core section, the automated section,
\* the manual section and the footer with the time of generation, whatever
\* inputs are empty.
C17_FixedSectionOrder ==
    gs_pc = "done" =>
        \E w \in PlacesOf(SecurityWarning), m \in PlacesOf("**Environment**: "),
           c \in Places(CoreHeading), a \in Places(AutomatedHeading),
           h \in Places(ManualHeading), f \in PlacesOf("**Generated**: ") :
            w < m /\ m < c /\ c < a /\ a < h /\ h < f

\* C17, amended: the document holds, in this order, a title header (and no
\* security warning), the metadata, the shared/core section if and only if
\* core_resources is not empty, the automated section, the manual section,
\* and the notes footer that ends with the time of generation.
C17_SectionOrder ==
    gs_pc = "done" =>
        /\ SelectSeq(gs_content, IsSectionHeading) =
              <<gs_content[1]>>
                  \o (IF TruthyArg(gs_args.core_resources) THEN <<CoreHeading>> ELSE <<>>)
                  \o <<AutomatedHeading, ManualHeading, NotesHeading>>
        /\ gs_content[1][1] = "# "
        /\ PlacesOf(SecurityWarning) = {}
        /\ \E m \in PlacesOf("**Environment**: ") :
              \A i \in 2..Len(gs_content) : IsSectionHeading(gs_content[i]) => m < i
        /\ PlacesOf("**Generated**: ") = {Len(gs_content)}

\* a document with core resources and walkthrough text but no automated
\* command
C17_Witness ==
    /\ gs_pc = "done"
    /\ gs_args.core_resources.items # <<>>
    /\ gs_args.automated_commands.items = <<>>
    /\ gs_args.manual_commands.text # <<>>
    /\ Places(CoreHeading) # {}

\* C18: no heading of the document is left without content under it: a
\* heading is followed by a block that is neither a heading nor a rule,
\* and each of the sections has at least one block after its introductory
\* sentence; a section without items holds the placeholder sentence of
\* that section and nothing else.
C18_NoEmptySection ==
    gs_pc = "done" =>
        /\ \A i \in 1..Len(gs_content) :
              IsHeading(gs_content[i]) =>
                  /\ i < Len(gs_content)
                  /\ ~IsHeading(gs_content[i + 1])
                  /\ gs_content[i + 1] # Rule
        /\ \A h \in {CoreHeading, AutomatedHeading, ManualHeading} :
              Places(h) # {} => Len(SectionBody(h)) >= 2
        /\ ~TruthyArg(gs_args.automated_commands) =>
              /\ Len(SectionBody(AutomatedHeading)) = 2
              /\ SectionBody(AutomatedHeading)[2] =
                    <<"_No automated SQL commands for this lab._">>
        /\ ~TruthyArg(gs_args.manual_commands) =>
              /\ Len(SectionBody(ManualHeading)) = 2
              /\ SectionBody(ManualHeading)[2] =
                    <<"_No manual SQL commands for this lab._">>

\* a document for no automated command and no manual content
C18_Witness ==
    /\ gs_pc = "done"
    /\ ~TruthyArg(gs_args.automated_commands)
    /\ ~TruthyArg(gs_args.manual_commands)
    /\ Places(<<"_No automated SQL commands for this lab._">>) # {}
    /\ Places(<<"_No manual SQL commands for this lab._">>) # {}

\* the blocks under heading h after the introductory sentence are, for
\* k = 1, 2, ..., the heading "### k. title" and the sql code block of the
\* k-th of cmds
NumberedItems(h, cmds) ==
    /\ Len(SectionBody(h)) = 1 + 2 * Len(cmds)
    /\ \A k \in 1..Len(cmds) :
          /\ SectionBody(h)[2 * k] = <<"### ", ToString(k), ". ">> \o cmds[k].title
          /\ SectionBody(h)[2 * k + 1] =
                <<BQ, BQ, BQ, "sql", NL>> \o cmds[k].sql \o <<NL, BQ, BQ, BQ>>

\* C19: in the shared/core section and in the automated section the k-th
\* item is the heading "### k. title" followed by a fenced sql code block
\* with its body, k counting from 1 in input order in each section.
C19_ItemsNumberedPerSection ==
    gs_pc = "done" =>
        /\ TruthyArg(gs_args.core_resources) =>
              NumberedItems(CoreHeading, gs_args.core_resources.items)
        /\ TruthyArg(gs_args.automated_commands) =>
              NumberedItems(AutomatedHeading, gs_args.automated_commands.items)

\* two core resources and two automated commands: both sections count 1, 2
C19_Witness ==
    /\ gs_pc = "done"
    /\ Len(gs_args.core_resources.items) = 2
    /\ Len(gs_args.automated_commands.items) = 2
    /\ Cardinality(PlacesOf("### ")) = 4

\* C20: for a lab whose walkthrough file does not exist,
\* get_manual_commands_for_lab returns the empty string and prints a
\* warning, and the summary generated then holds the placeholder of the
\* manual section.
C20_MissingWalkthrough ==
    gs_walkthrough.kind = "missing" =>
        /\ gs_pc \in {"summary", "done"} =>
              /\ gs_args.manual_commands = StrArg(<<>>)
              /\ gs_warnings # <<>>
        /\ gs_pc = "done" =>
              SectionBody(ManualHeading)[2] = <<"_No manual SQL commands for this lab._">>

\* a summary generated for a known lab whose walkthrough file is missing
C20_Witness ==
    /\ gs_pc = "done"
    /\ gs_walkthrough.kind = "missing"
    /\ gs_lab_name \in markdown_files
    /\ gs_warnings = <<"Walkthrough file not found">>
    /\ Places(<<"_No manual SQL commands for this lab._">>) # {}

(***************************************************************************)
(* One run of deploy, followed by the summaries of the labs it applied;    *)
(* one run of destroy.                                                     *)
(***************************************************************************)
InitDeploy ==
    PU_Idle /\ PB_Idle /\ WX_Idle /\ SS_Idle /\ RC_Idle /\ TF_Idle /\ GS_Idle /\ EN_InitDeploy /\ CL_Idle /\ PD_Idle /\ FH_Idle /\ AT_Idle
NextDeploy ==
    \/ EN_WriteTfvars
    \/ EN_Deploy
    \/ EN_Completed
    \/ EN_FlinkSummary
SpecDeploy == InitDeploy /\ [][NextDeploy]_vars /\ WF_vars(NextDeploy)

InitDestroy ==
    PU_Idle /\ PB_Idle /\ WX_Idle /\ SS_Idle /\ RC_Idle /\ TF_Idle /\ GS_Idle /\ EN_InitDestroy /\ CL_Idle /\ PD_Idle /\ FH_Idle /\ AT_Idle
NextDestroy ==
    \/ EN_Destroy
    \/ EN_Completed
SpecDestroy == InitDestroy /\ [][NextDestroy]_vars /\ WF_vars(NextDestroy)

(***************************************************************************)
(* Properties of deploy and destroy.                                       *)
(***************************************************************************)
Entries == {en_log[k] : k \in 1..Len(en_log)}
\* the passes of the loop, without what follows the loop
Passes == SelectSeq(en_log, LAMBDA e : e.op # "generate_flink_sql_summary")

\* C21: documentation generation never changes the outcome of a deployment:
\* run_terraform returns True exactly when terraform init and apply succeeded,
\* whatever went wrong while DEPLOYED_RESOURCES.md was generated; every such
\* failure, and every failure while FLINK_SQL_COMMANDS.md is generated, ends
\* as a warning with nothing raised.
C21_DocumentationNeverChangesOutcome ==
    \A e \in Entries :
        /\ e.op = "run_terraform" =>
             /\ e.result \in {"True", "False", "SystemExit"}
             /\ e.result = "True" <=> e.outcome = "ok"
             /\ e.doc \in DocModes \ {"ok"} => e.warnings # NoWarnings
        /\ e.op = "generate_flink_sql_summary" =>
             /\ e.result = "none"
             /\ e.doc # "ok" => e.warnings # NoWarnings

\* every way of failing has been met in one run that completed
C21_Witness ==
    /\ en_pc = "completed"
    /\ \E e \in Entries : e.env = Core /\ e.doc = "output_fails" /\ e.result = "True"
    /\ \E e \in Entries : e.op = "generate_flink_sql_summary" /\ e.doc = "malformed_items"
    /\ \E e \in Entries : e.op = "generate_flink_sql_summary" /\ e.doc = "unwritable"

\* C22: after destroy has processed an environment whose terraform destroy
\* succeeded, FLINK_SQL_COMMANDS.md is not in the directory of the
\* environment, and DEPLOYED_RESOURCES.md is not in core, whatever else was
\* in the directory.
C22_SummariesRemoved ==
    \A e \in Entries :
        (e.op = "run_terraform_destroy" /\ e.result = "True") =>
            /\ FlinkSummary \notin en_dirs[e.env].names
            /\ DeployedResources \notin en_dirs[e.env].names

C27_FailedDestroyNeverStops ==
    /\ \A k \in 1..Len(en_log) : en_log[k].env = en_envs[k]
    /\ \A e \in Entries :
         /\ e.op = "run_terraform_destroy" => (e.cleanup <=> e.outcome = "ok")
         /\ (e.op = "run_terraform_destroy" /\ e.outcome # "ok") => en_pc # "exit1"

\* C27: the environments are taken in the order of the list, which for "all"
\* is lab3, lab2, lab1, core; a destroy that terraform fails does not stop the
\* loop, while a missing terraform binary stops the run with status 1 at the
\* first environment that exists; the artifacts are cleaned up exactly when
\* the destroy succeeded, and the directory of an environment whose destroy
\* did not succeed is left as it was.
C27_DestroyOrdering ==
    [][/\ Len(en_envs) > 1 => en_envs = <<Lab3, Lab2, Lab1, Core>>
       /\ \A k \in 1..Len(en_log') :
            /\ en_log'[k].env = en_envs[k]
            /\ en_log'[k].op = "skip" <=> ~en_dirs[en_envs[k]].exists
            /\ en_log'[k].op = "run_terraform_destroy" =>
                 /\ en_log'[k].cleanup <=> en_log'[k].outcome = "ok"
                 /\ en_log'[k].result =
                      CASE en_log'[k].outcome = "ok" -> "True"
                        [] en_log'[k].outcome = "not_found" -> "SystemExit"
                        [] OTHER -> "False"
                 /\ en_log'[k].result = "False" => en_pc' # "exit1"
                 /\ en_log'[k].result = "SystemExit" =>
                      /\ en_pc' = "exit1"
                      /\ \A j \in 1..(k - 1) : en_log'[j].op = "skip"
       /\ en_pc' = "completed" => Len(en_log') = Len(en_envs)
       /\ \A env \in Environments :
            en_dirs'[env] # en_dirs[env] =>
                /\ en_log' # en_log
                /\ en_log'[Len(en_log')].env = env
                /\ en_log'[Len(en_log')].result = "True"]_vars

\* a run over all four environments in which lab2 failed and the rest,
\* core included, were destroyed and cleaned up
C27_Witness ==
    /\ en_pc = "completed"
    /\ en_envs = <<Lab3, Lab2, Lab1, Core>>
    /\ Len(en_log) = 4
    /\ en_log[1].cleanup
    /\ en_log[2].result = "False" /\ ~en_log[2].cleanup
    /\ TfstateFile \in en_dirs[Lab2].names
    /\ en_log[3].cleanup
    /\ en_log[4].cleanup
    /\ TfstateFile \notin en_dirs[Core].names

(***************************************************************************)
(* One run of the summary command.                                         *)
(***************************************************************************)
InitCli ==
    PU_Idle /\ PB_Idle /\ WX_Idle /\ SS_Idle /\ RC_Idle /\ TF_Idle /\ GS_Idle /\ EN_Idle /\ CL_Init /\ PD_Idle /\ FH_Idle /\ AT_Idle
NextCli == CL_Main
SpecCli == InitCli /\ [][NextCli]_vars /\ WF_vars(NextCli)

\* C23: given a lab name, a cloud provider and a terraform directory, the
\* command exits with status 1 and writes no file when the provider is not
\* aws or azure or the directory does not exist, and exits with status 0
\* otherwise, also for an unknown lab and for a core directory that is
\* missing or gives no outputs.
C23_ExitStatus ==
    cl_pc = "exited" =>
        IF cl_argv.cloud_provider \notin {"aws", "azure"} \/ ~cl_argv.terraform_dir_exists
        THEN cl_exit.status = 1 /\ ~cl_exit.written
        ELSE cl_exit.status = 0

\* the command exited 0 with nothing to extract: unknown lab, no core
C23_Witness ==
    /\ cl_pc = "exited"
    /\ cl_argv.lab_name = "lab9"
    /\ cl_argv.core = "missing"
    /\ cl_exit.status = 0
    /\ cl_exit.commands = 0
    /\ cl_exit.written

(***************************************************************************)
(* One call of publish_directory / publish_jsonl_file.                     *)
(***************************************************************************)
InitPublish ==
    PU_Idle /\ PB_Idle /\ WX_Idle /\ SS_Idle /\ RC_Idle /\ TF_Idle /\ GS_Idle /\ EN_Idle /\ CL_Idle /\ PD_Init /\ FH_Idle /\ AT_Idle
NextPublish ==
    \/ PD_ReadFailed
    \/ PD_Submit
    \/ \E t \in DOMAIN pd_task :
         \/ PD_Parse(t)
         \/ PD_Acquire(t)
         \/ PD_Verified(t)
         \/ PD_Check(t)
         \/ PD_Checked(t)
         \/ PD_Publish(t)
         \/ PD_Collect(t)
    \/ PD_Return
\* every thread goes on, and the lock is handed to every thread that waits
SpecPublish == InitPublish /\ [][NextPublish]_vars /\ WF_vars(NextPublish)

\* C24: check_confluent_login is called at most once for one publisher, and
\* never by two workers at the same time.
C24_LoginCheckedOnce ==
    /\ pd_checks <= 1
    /\ Cardinality({t \in DOMAIN pd_task : pd_task[t].pc = "checking"}) <= 1

\* C29: when publish_directory / publish_jsonl_file returns, success +
\* failed = total, every input is counted once, and it does return: no
\* exception of a worker leaves the call.
C29_EveryInputCountedOnce ==
    /\ pd_pc # "raised"
    /\ pd_results.success + pd_results.failed =
         Cardinality({t \in DOMAIN pd_task : pd_task[t].pc = "collected"})
    /\ pd_pc = "returned" =>
         /\ pd_results.success + pd_results.failed = pd_results.total
         /\ pd_results.total = Len(pd_task)
         /\ pd_results.success =
              Cardinality({t \in DOMAIN pd_task : pd_task[t].success})

\* a call that returned with inputs of both kinds, the login checked twice
C29_Witness ==
    /\ pd_pc = "returned"
    /\ pd_results.total = MaxInputs
    /\ pd_results.success > 0
    /\ pd_results.failed > 1
    /\ pd_checks > 1

(***************************************************************************)
(* One call of wait_for_status; one helper and the calls made on it.       *)
(***************************************************************************)
InitWait ==
    PU_Idle /\ PB_Idle /\ WX_Idle /\ SS_Idle /\ RC_Idle /\ TF_Idle /\ GS_Idle /\ EN_Idle /\ CL_Idle /\ PD_Idle /\ FW_Init /\ FT_Idle /\ AT_Idle
NextWait ==
    \/ FH_Read
    \/ FH_Check
    \/ FH_Sleep
SpecWait == InitWait /\ [][NextWait]_vars /\ WF_vars(NextWait)

InitTrack ==
    PU_Idle /\ PB_Idle /\ WX_Idle /\ SS_Idle /\ RC_Idle /\ TF_Idle /\ GS_Idle /\ EN_Idle /\ CL_Idle /\ PD_Idle /\ FW_Idle /\ FT_Init /\ AT_Idle
NextTrack ==
    \/ FH_Execute
    \/ FH_Delete
    \/ FH_DeletedElsewhere
    \/ FH_CleanupAll
    \/ FH_CleanupStep
    \/ FH_CleanupReturn
SpecTrack == InitTrack /\ [][NextTrack]_vars /\ WF_vars(NextTrack)

\* C25: wait_for_status returns a status only if it is a target; it raises
\* RuntimeError as soon as the status read is FAILED or STOPPED and not a
\* target, whatever time has passed; it raises TimeoutError only on a status
\* that is neither a target nor FAILED/STOPPED, read with elapsed >= timeout;
\* otherwise it sleeps interval and reads the status again.
C25_WaitForStatus ==
    [][/\ fw_pc' = "returned" =>
            /\ fw_result' \in fw_args.target_statuses
            /\ fw_result' = fw_status
       /\ fw_pc = "check" =>
            LET target == fw_status \in fw_args.target_statuses
                failure == fw_status \in FailureStates
            IN  /\ (~target /\ failure) => (fw_pc' = "raised" /\ fw_result' = "RuntimeError")
                /\ (fw_pc' = "raised" /\ fw_result' = "RuntimeError") => (~target /\ failure)
                /\ (fw_pc' = "raised" /\ fw_result' = "TimeoutError") =>
                       (~target /\ ~failure /\ fw_now >= fw_args.timeout)
                /\ (~target /\ ~failure /\ fw_now < fw_args.timeout) => fw_pc' = "sleep"
       /\ \A k \in 1..(Len(fw_trace') - 1) :
            IF fw_trace'[k][1] = "read"
            THEN fw_trace'[k + 1] = <<"sleep", fw_args.interval>>
            ELSE fw_trace'[k + 1][1] = "read"]_vars

\* a wait that slept twice and then met a failure state after the timeout
C25_Witness ==
    /\ fw_pc = "raised"
    /\ fw_result = "RuntimeError"
    /\ Len(Reads) = 3
    /\ fw_now > fw_args.timeout
    /\ fw_args.interval > 0

\* C28: created_statements holds exactly the names created with success and
\* not deleted with success since; cleanup_all tries a delete for every
\* tracked statement, goes on after a failure, raises nothing and leaves the
\* list empty when every delete succeeded.
C28_TrackingExact ==
    /\ Names(ft_created) = ft_live
    /\ ft_cleanup.raised = "none"
    /\ ft_cleanup.done =>
         /\ ft_cleanup.attempts = Len(ft_cleanup.snapshot)
         /\ ft_cleanup.failures = 0 => ft_created = <<>>

(***************************************************************************)
(* The clock, called for ever.                                             *)
(***************************************************************************)
InitClock ==
    PU_Idle /\ PB_Idle /\ WX_Idle /\ SS_Idle /\ RC_Idle /\ TF_Idle /\ GS_Idle /\ EN_Idle /\ CL_Idle /\ PD_Idle /\ FH_Idle /\ AT_Init
NextClock == AT_Call
SpecClock == InitClock /\ [][NextClock]_vars /\ WF_vars(NextClock)

Historical(value) == value.throttle = 0
Realtime ==
    /\ at_value = [ts |-> at_args.now, throttle |-> at_args.realtimeDelta]
    /\ at_state # None
    /\ at_state[1] >= at_args.startingTime

\* C30: from no state the clock emits historical timestamps, the first one
\* startingTime minus one day, each the one before plus historicalDelta, with
\* throttle 0; with historicalDelta > 0 it reaches the realtime phase, and
\* from then on every call emits now with throttle realtimeDelta, leaves the
\* state as it is and never emits a historical timestamp again.
C30_TwoPhaseClock ==
    /\ [][/\ (at_value = NoValue /\ Historical(at_value')) =>
                at_value'.ts = at_args.startingTime - Day
          /\ (Historical(at_value) /\ Historical(at_value')) =>
                at_value'.ts = at_value.ts + at_args.historicalDelta
          /\ Realtime => (Realtime' /\ at_state' = at_state)]_vars
    /\ (at_pc = "calls" /\ at_args.historicalDelta > 0) ~> Realtime

====
